---- MODULE Spec2Model ----
(***************************************************************************)
(* TranslationService (src/src/services/PriceDiscoveryService.test.ts,     *)
(* lines 765-1338): the term-preserving translation pipeline and its       *)
(* bounded, persisted cache; searchCommodity (src/unnamed/part_004) over   *)
(* the catalog SAMPLE_PRICES (src/unnamed/part_002); the negotiation       *)
(* service (src/src/services/NegotiationService.ts); the transaction       *)
(* store and service (src/src/services/SessionManager.tsx).                *)
(*                                                                         *)
(* Texts are sequences of tokens; the string a text stands for is the      *)
(* concatenation of its tokens.  A token is a word or the single space     *)
(* " "; the texts given to the service alternate words and spaces, so a    *)
(* regular expression with \b...\b matches whole word tokens, and          *)
(* String.replace(match, x) replaces the first token equal to match.       *)
(* The words are chosen so that no word contains another word, a           *)
(* commercial term or a placeholder as a proper substring of a match.      *)
(* Confidences are in hundredths (0.85 is 85); Dates are their getTime()   *)
(* in milliseconds.                                                        *)
(* The async functions translateMessage and getNegotiationSuggestion run   *)
(* without interruption up to an await and from it on; a call suspended at *)
(* an await is an element of a queue, and calls made meanwhile run in      *)
(* between.                                                                *)
(* localStorage is taken to accept every write and to return what was      *)
(* written: the catch branches of loadCacheFromStorage and                 *)
(* saveCacheToStorage, which guard against a faulty store, are not taken.  *)
(***************************************************************************)
EXTENDS Integers, Sequences, FiniteSets, TLC

\* ------------------------------------------------------------------ bounds

\* capacity of the cache; 1000 in the source (line 841), scaled down
MAX_CACHE_SIZE == 2
\* last value of the millisecond clock
MaxTime == 1
\* number of service calls in a run
MaxCalls == 4
\* number of calls of one service suspended at an await at once
MaxPending == 2

\* ------------------------------------------------------------------ tokens

Space == " "
\* a word of 501 characters: a text longer than 500 characters
LongWord == "zzzzzzzzzzzzzzzzzzzzzzzzzzzzzzzzzzzzzzzzzzzzzzzzzzzzzzzzzzzzzzzzzzzzzzzzzzzzzzzzzzzzzzzzzzzzzzzzzzzzzzzzzzzzzzzzzzzzzzzzzzzzzzzzzzzzzzzzzzzzzzzzzzzzzzzzzzzzzzzzzzzzzzzzzzzzzzzzzzzzzzzzzzzzzzzzzzzzzzzzzzzzzzzzzzzzzzzzzzzzzzzzzzzzzzzzzzzzzzzzzzzzzzzzzzzzzzzzzzzzzzzzzzzzzzzzzzzzzzzzzzzzzzzzzzzzzzzzzzzzzzzzzzzzzzzzzzzzzzzzzzzzzzzzzzzzzzzzzzzzzzzzzzzzzzzzzzzzzzzzzzzzzzzzzzzzzzzzzzzzzzzzzzzzzzzzzzzzzzzzzzzzzzzzzzzzzzzzzzzzzzzzzzzzzzzzzzzzzzzzzzzzzzzzzzzzzzzzzzzzzzzzzzzzzzzzzzzzzzzzzzzzzzzzzzzzzzzzzzzzz"
\* the Devanagari, Tamil and Telugu strings of the mock dictionary are
\* written <lang:english>
Foreign(lang, english) == "<" \o lang \o ":" \o english \o ">"

Words == {"hello", "Hello", "price", "rs500", "zzz", LongWord}

IsSpace(tok) == tok = Space

\* the texts of at most three tokens that alternate words and spaces
PureTexts ==
  {<<>>} \cup {<<w>> : w \in Words \cup {Space}}
         \cup {<<w, Space>> : w \in Words} \cup {<<Space, w>> : w \in Words}
         \cup {<<w, Space, v>> : w \in Words, v \in Words}
         \cup {<<Space, w, Space>> : w \in Words}

\* the texts and languages of the calls made on the cache
Texts == {<<"hello">>, <<"Hello">>, <<LongWord>>}
Langs == {"en", "hi"}

SUPPORTED_LANGUAGES ==
  [en |-> "English", hi |-> "Hindi", ta |-> "Tamil", te |-> "Telugu",
   bn |-> "Bengali", mr |-> "Marathi", gu |-> "Gujarati", kn |-> "Kannada",
   ml |-> "Malayalam", pa |-> "Punjabi"]

LanguageCode == DOMAIN SUPPORTED_LANGUAGES

\* the rupee sign (index 2 of the source's list) is written U+20B9
COMMERCIAL_TERMS ==
  << "rupee", "rupees", "U+20B9", "rs", "price", "rate", "cost",
     "kg", "kilogram", "quintal", "ton", "tonne", "litre", "liter",
     "grade", "quality", "premium", "standard",
     "mandi", "apmc", "wholesale", "retail", "market",
     "payment", "advance", "credit", "cash", "upi",
     "wheat", "rice", "dal", "onion", "potato", "tomato" >>

\* term.toUpperCase() of each commercial term
TermUpperCase ==
  << "RUPEE", "RUPEES", "U+20B9", "RS", "PRICE", "RATE", "COST",
     "KG", "KILOGRAM", "QUINTAL", "TON", "TONNE", "LITRE", "LITER",
     "GRADE", "QUALITY", "PREMIUM", "STANDARD",
     "MANDI", "APMC", "WHOLESALE", "RETAIL", "MARKET",
     "PAYMENT", "ADVANCE", "CREDIT", "CASH", "UPI",
     "WHEAT", "RICE", "DAL", "ONION", "POTATO", "TOMATO" >>

PlaceholderIndices == 0..3
TermIndices == 1..Len(COMMERCIAL_TERMS)

CurrencyPlaceholders ==
  [i \in PlaceholderIndices |-> "__CURRENCY_" \o ToString(i) \o "__"]
TermPlaceholders ==
  [j \in TermIndices |->
     "__TERM_" \o TermUpperCase[j] \o "_" \o ToString(j - 1) \o "__"]

\* `__CURRENCY_${index}__`, index from 0
CurrencyPlaceholder(i) == CurrencyPlaceholders[i]
\* `__TERM_${term.toUpperCase()}_${index}__`; j is the term's place from 1
TermPlaceholder(j) == TermPlaceholders[j]

\* the tokens that String.toLowerCase changes, with what it makes of them
LowerCased ==
  [tok \in {"Hello"} \cup {CurrencyPlaceholders[i] : i \in PlaceholderIndices}
                     \cup {TermPlaceholders[j] : j \in TermIndices} |->
     IF tok = "Hello" THEN "hello"
     ELSE IF \E i \in PlaceholderIndices : tok = CurrencyPlaceholders[i]
     THEN LET i == CHOOSE i \in PlaceholderIndices : tok = CurrencyPlaceholders[i]
          IN "__currency_" \o ToString(i) \o "__"
     ELSE LET j == CHOOSE j \in TermIndices : tok = TermPlaceholders[j]
          IN "__term_" \o COMMERCIAL_TERMS[j] \o "_" \o ToString(j - 1) \o "__"]

\* String.toLowerCase of one token
LowerToken(tok) == IF tok \in DOMAIN LowerCased THEN LowerCased[tok] ELSE tok

toLowerCase(text) == [i \in 1..Len(text) |-> LowerToken(text[i])]

RECURSIVE trimStart(_)
trimStart(text) ==
  IF text # <<>> /\ IsSpace(Head(text)) THEN trimStart(Tail(text)) ELSE text

RECURSIVE trimEnd(_)
trimEnd(text) ==
  IF text # <<>> /\ IsSpace(text[Len(text)])
  THEN trimEnd(SubSeq(text, 1, Len(text) - 1)) ELSE text

trim(text) == trimEnd(trimStart(text))

RECURSIVE length(_)
\* String.length: the sum of the tokens' lengths
length(text) ==
  IF text = <<>> THEN 0 ELSE Len(Head(text)) + length(Tail(text))

\* String.replace(pattern, replacement) with a string pattern: the first
\* occurrence only
ReplaceFirst(text, pattern, replacement) ==
  IF \E i \in 1..Len(text) : text[i] = pattern
  THEN LET i == CHOOSE i \in 1..Len(text) :
                  text[i] = pattern /\ \A k \in 1..(i - 1) : text[k] # pattern
       IN [text EXCEPT ![i] = replacement]
  ELSE text

\* /₹\s*[\d,]+(?:\.\d+)?|rs\.?\s*[\d,]+(?:\.\d+)?/gi on one word
IsCurrencyAmount(tok) == tok = "rs500"

\* new RegExp(`\\b${term}\\b`, 'gi') on one token
IsWholeWord(tok, term) == LowerToken(tok) = term

\* ------------------------------------------------- the translation pipeline

RECURSIVE ExtractCurrency(_, _, _, _)
\* currencyMatches.forEach((match, index) => ...), from index on
ExtractCurrency(matches, index, cleanText, preservedTerms) ==
  IF index >= Len(matches)
  THEN [cleanText |-> cleanText, preservedTerms |-> preservedTerms]
  ELSE LET match == matches[index + 1]
           placeholder == CurrencyPlaceholder(index)
       IN ExtractCurrency(matches, index + 1,
            ReplaceFirst(cleanText, match, placeholder),
            Append(preservedTerms, [term |-> match, placeholder |-> placeholder]))

RECURSIVE ExtractMatches(_, _, _, _)
\* matches.forEach((match) => ...) of the commercial term at place j
ExtractMatches(matches, j, cleanText, preservedTerms) ==
  IF matches = <<>>
  THEN [cleanText |-> cleanText, preservedTerms |-> preservedTerms]
  ELSE LET match == Head(matches)
           placeholder == TermPlaceholder(j)
       IN ExtractMatches(Tail(matches), j,
            ReplaceFirst(cleanText, match, placeholder),
            Append(preservedTerms, [term |-> match, placeholder |-> placeholder]))

RECURSIVE ExtractTerms(_, _, _)
\* COMMERCIAL_TERMS.forEach((term, index) => ...), from place j on; a term
\* that matches nothing leaves cleanText and preservedTerms as they are
ExtractTerms(j, cleanText, preservedTerms) ==
  LET matching == {k \in j..Len(COMMERCIAL_TERMS) :
                     \E i \in 1..Len(cleanText) :
                        IsWholeWord(cleanText[i], COMMERCIAL_TERMS[k])}
  IN IF matching = {}
     THEN [cleanText |-> cleanText, preservedTerms |-> preservedTerms]
     ELSE LET k == CHOOSE k \in matching : \A m \in matching : k <= m
              term == COMMERCIAL_TERMS[k]
              matches == SelectSeq(cleanText, LAMBDA tok : IsWholeWord(tok, term))
              done == ExtractMatches(matches, k, cleanText, preservedTerms)
          IN ExtractTerms(k + 1, done.cleanText, done.preservedTerms)

extractCommercialTerms(text) ==
  LET currencyMatches == SelectSeq(text, IsCurrencyAmount)
      currency == ExtractCurrency(currencyMatches, 0, text, <<>>)
  IN ExtractTerms(1, currency.cleanText, currency.preservedTerms)

RECURSIVE restoreCommercialTerms(_, _)
restoreCommercialTerms(text, preservedTerms) ==
  IF preservedTerms = <<>> THEN text
  ELSE restoreCommercialTerms(
         ReplaceFirst(text, Head(preservedTerms).placeholder, Head(preservedTerms).term),
         Tail(preservedTerms))

\* the script ranges of mockLanguageDetection, on the dictionary's strings
InScript(tok, lang) ==
  \E english \in {"hello", "price"} : tok = Foreign(lang, english)

mockLanguageDetection(text) ==
  LET has(lang) == \E i \in 1..Len(text) : InScript(text[i], lang)
  IN IF has("hi") THEN "hi"
     ELSE IF has("ta") THEN "ta"
     ELSE IF has("te") THEN "te"
     ELSE "en"

\* the entries of `translations` whose English phrase is a word of Words
MockDictionaryWords(toLang) ==
  IF toLang \in {"hi", "ta", "te"} THEN {"hello", "price"} ELSE {}

mockTranslation(text, toLang) ==
  IF text = <<>> \/ trim(text) = <<>> THEN text
  ELSE IF mockLanguageDetection(text) = toLang THEN text
  ELSE LET lowered == toLowerCase(text)
           translated ==
             [i \in 1..Len(lowered) |->
                IF lowered[i] \in MockDictionaryWords(toLang)
                THEN Foreign(toLang, lowered[i]) ELSE lowered[i]]
       IN IF translated = lowered
          THEN <<"[" \o SUPPORTED_LANGUAGES[toLang] \o "] ">> \o text
          ELSE translated

\* what translateClient.translate does in a call: it throws, or it returns a
\* translation of the text
ClientOutcomes == {"throw", "return"}

Throw == <<"@throw">>

\* the translation the client returns: one that keeps the placeholders
clientTranslate(text) == <<"(client) ">> \o text

performTranslation(useMock, client, text, fromLang, toLang, outcome) ==
  IF useMock \/ client = "null" THEN mockTranslation(text, toLang)
  ELSE IF outcome = "throw" THEN mockTranslation(text, toLang)
  ELSE clientTranslate(text)

Min(a, b) == IF a < b THEN a ELSE b
Max(a, b) == IF a > b THEN a ELSE b

calculateConfidence(originalText, translatedText, fromLang, toLang) ==
  LET base == 90
      short == IF length(originalText) < 10 THEN base - 10 ELSE base
      long == IF length(originalText) > 500 THEN short - 5 ELSE short
      confidence == IF originalText = translatedText /\ fromLang # toLang
                    THEN 50 ELSE long
  IN Max(0, Min(100, confidence))

CONFIDENCE_THRESHOLD == 85

\* shouldFlagForReview that also flags a confidence equal to the threshold
shouldFlagForReview_inclusive(translation) ==
  translation.confidence <= CONFIDENCE_THRESHOLD

shouldFlagForReview(translation) ==
  translation.confidence < CONFIDENCE_THRESHOLD

\* ----------------------------------------------------------------- the cache

VARIABLES
  cache,               \* this.cache: the Map's entries in insertion order
  storage,             \* localStorage's slot CACHE_KEY
  useMockTranslation,  \* this.useMockTranslation
  translateClient,     \* this.translateClient: "null" or "client"
  now,                 \* Date.now()
  calls,               \* the calls completed so far
  last                 \* the last call completed: its arguments, what it returned,
                       \* and whether it repeated the call before it

VARIABLES
  search,              \* the last searchCommodity call: its query and what it returned
  catalog              \* priceMin and priceMax of the records of SAMPLE_PRICES,
                       \* the fields of the objects getPrice returns that are
                       \* read after an await

resolverVars == <<search, catalog>>

VARIABLES
  advice               \* the last call of the negotiation service: its context
                       \* and the suggestion it returned

VARIABLES
  stalled              \* the last isNegotiationStalled call: its offers and
                       \* what it returned

advisorVars == <<advice, stalled>>

VARIABLES
  reply                \* the last getPoliteResponseTemplate call: its suggestion,
                       \* its language and the phrase it returned

replyVars == <<reply>>

VARIABLES
  transactions,        \* transactionStore.transactions: the Map's entries in
                       \* insertion order
  txStorage,           \* localStorage's slot 'mandi_transactions'
  txLast,              \* the last call of the transaction service: its arguments
                       \* and the error it threw, if any
  issued               \* the ids generateId has returned, oldest first

transactionVars == <<transactions, txStorage, txLast, issued>>

VARIABLES
  peerCache,           \* this.cache of a second TranslationService that shares
                       \* the slot CACHE_KEY
  pending,             \* the translateMessage calls suspended at the await of
                       \* performTranslation, oldest first
  peerPending,         \* the suspended calls of the second service
  advising             \* the getNegotiationSuggestion calls suspended at the await
                       \* of getPrice, oldest first

concurrencyVars == <<peerCache, pending, peerPending, advising>>

vars == <<cache, storage, useMockTranslation, translateClient, now, calls, last,
          resolverVars, advisorVars, replyVars, transactionVars, concurrencyVars>>

\* the fields of the translation service
translationVars ==
  <<cache, storage, useMockTranslation, translateClient, now, calls, last>>

\* no searchCommodity call made yet
NoSearch == [op |-> "none", query |-> <<>>, result |-> [id |-> "null"]]

\* an optional number: undefined, or a price in half rupees
Undefined == [present |-> FALSE, value |-> 0]
Number(value) == [present |-> TRUE, value |-> value]

\* no call of the negotiation service made yet
NoAdvice ==
  [op |-> "none",
   context |-> [commodity |-> <<>>, marketPrice |-> Undefined, currentOffer |-> 0,
                previousOffers |-> <<>>],
   suggestion |-> [type |-> "none", tone |-> "none", suggestedPrice |-> Undefined]]

\* no getPoliteResponseTemplate call made yet
NoReply ==
  [op |-> "none",
   suggestion |-> [type |-> "none", suggestedPrice |-> Undefined, message |-> ""],
   language |-> "",
   result |-> [kind |-> "none", language |-> "", type |-> "", index |-> 0,
               price |-> Undefined, message |-> ""]]

\* no call of the transaction service made yet
NoTransactionCall ==
  [op |-> "none", transactionId |-> <<0, 0>>, ratedBy |-> "none", rating |-> 0,
   threw |-> "none"]

\* ------------------------------------------------------------ the catalog

\* the catalog: id, names, price range and aliases of each record
SAMPLE_PRICES ==
  <<
    [id |-> "tomato",
     name |-> <<"T", "o", "m", "a", "t", "o">>,
     nameHindi |-> <<"u091f", "u092e", "u093e", "u091f", "u0930">>,
     nameTamil |-> <<"u0ba4", "u0b95", "u0bcd", "u0b95", "u0bbe", "u0bb3", "u0bbf">>,
     priceMin |-> 18, priceMax |-> 22,
     aliases |->
       <<<<"t", "o", "m", "a", "t", "o">>,
         <<"t", "a", "m", "a", "t", "a", "r">>,
         <<"u091f", "u092e", "u093e", "u091f", "u0930">>,
         <<"t", "o", "m", "a", "t", "o", "e", "s">>>>],
    [id |-> "onion",
     name |-> <<"O", "n", "i", "o", "n">>,
     nameHindi |-> <<"u092a", "u094d", "u092f", "u093e", "u091c">>,
     nameTamil |-> <<"u0bb5", "u0bc6", "u0b99", "u0bcd", "u0b95", "u0bbe", "u0baf", "u0bae", "u0bcd">>,
     priceMin |-> 14, priceMax |-> 18,
     aliases |->
       <<<<"o", "n", "i", "o", "n">>,
         <<"p", "y", "a", "z">>,
         <<"u092a", "u094d", "u092f", "u093e", "u091c">>,
         <<"o", "n", "i", "o", "n", "s">>,
         <<"k", "a", "n", "d", "a">>>>],
    [id |-> "wheat",
     name |-> <<"W", "h", "e", "a", "t">>,
     nameHindi |-> <<"u0917", "u0947", "u0939", "u0942", "u0902">>,
     nameTamil |-> <<"u0b95", "u0bcb", "u0ba4", "u0bc1", "u0bae", "u0bc8">>,
     priceMin |-> 2100, priceMax |-> 2250,
     aliases |->
       <<<<"w", "h", "e", "a", "t">>,
         <<"g", "e", "h", "u", "n">>,
         <<"u0917", "u0947", "u0939", "u0942", "u0902">>,
         <<"g", "e", "h", "u">>>>],
    [id |-> "potato",
     name |-> <<"P", "o", "t", "a", "t", "o">>,
     nameHindi |-> <<"u0906", "u0932", "u0942">>,
     nameTamil |-> <<"u0b89", "u0bb0", "u0bc1", "u0bb3", "u0bc8", "u0b95", "u0bcd", "u0b95", "u0bbf", "u0bb4", "u0b99", "u0bcd", "u0b95", "u0bc1">>,
     priceMin |-> 12, priceMax |-> 16,
     aliases |->
       <<<<"p", "o", "t", "a", "t", "o">>,
         <<"a", "l", "o", "o">>,
         <<"u0906", "u0932", "u0942">>,
         <<"p", "o", "t", "a", "t", "o", "e", "s">>,
         <<"a", "l", "u">>>>],
    [id |-> "rice",
     name |-> <<"R", "i", "c", "e">>,
     nameHindi |-> <<"u091a", "u093e", "u0935", "u0932">>,
     nameTamil |-> <<"u0b85", "u0bb0", "u0bbf", "u0b9a", "u0bbf">>,
     priceMin |-> 2800, priceMax |-> 3200,
     aliases |->
       <<<<"r", "i", "c", "e">>,
         <<"c", "h", "a", "w", "a", "l">>,
         <<"u091a", "u093e", "u0935", "u0932">>,
         <<"d", "h", "a", "n">>>>],
    [id |-> "cotton",
     name |-> <<"C", "o", "t", "t", "o", "n">>,
     nameHindi |-> <<"u0915", "u092a", "u093e", "u0938">>,
     nameTamil |-> <<"u0baa", "u0bb0", "u0bc1", "u0ba4", "u0bcd", "u0ba4", "u0bbf">>,
     priceMin |-> 5800, priceMax |-> 6200,
     aliases |->
       <<<<"c", "o", "t", "t", "o", "n">>,
         <<"k", "a", "p", "a", "s">>,
         <<"u0915", "u092a", "u093e", "u0938">>,
         <<"r", "u", "i">>>>],
    [id |-> "sugarcane",
     name |-> <<"S", "u", "g", "a", "r", "c", "a", "n", "e">>,
     nameHindi |-> <<"u0917", "u0928", "u094d", "u0928", "u093e">>,
     nameTamil |-> <<"u0b95", "u0bb0", "u0bc1", "u0bae", "u0bcd", "u0baa", "u0bc1">>,
     priceMin |-> 280, priceMax |-> 320,
     aliases |->
       <<<<"s", "u", "g", "a", "r", "c", "a", "n", "e">>,
         <<"g", "a", "n", "n", "a">>,
         <<"u0917", "u0928", "u094d", "u0928", "u093e">>,
         <<"i", "k", "k", "u">>>>],
    [id |-> "pulses",
     name |-> <<"P", "u", "l", "s", "e", "s", " ", "(", "T", "u", "r", " ", "D", "a", "l", ")">>,
     nameHindi |-> <<"u0926", "u093e", "u0932", " ", "(", "u0924", "u0942", "u0930", ")">>,
     nameTamil |-> <<"u0baa", "u0bb0", "u0bc1", "u0baa", "u0bcd", "u0baa", "u0bc1">>,
     priceMin |-> 8500, priceMax |-> 9200,
     aliases |->
       <<<<"p", "u", "l", "s", "e", "s">>,
         <<"d", "a", "l">>,
         <<"u0926", "u093e", "u0932">>,
         <<"t", "u", "r">>,
         <<"a", "r", "h", "a", "r">>,
         <<"t", "o", "o", "r">>>>],
    [id |-> "chilli",
     name |-> <<"G", "r", "e", "e", "n", " ", "C", "h", "i", "l", "l", "i">>,
     nameHindi |-> <<"u0939", "u0930", "u0940", " ", "u092e", "u093f", "u0930", "u094d", "u091a">>,
     nameTamil |-> <<"u0baa", "u0b9a", "u0bcd", "u0b9a", "u0bc8", " ", "u0bae", "u0bbf", "u0bb3", "u0b95", "u0bbe", "u0baf", "u0bcd">>,
     priceMin |-> 25, priceMax |-> 35,
     aliases |->
       <<<<"c", "h", "i", "l", "l", "i">>,
         <<"m", "i", "r", "c", "h">>,
         <<"u092e", "u093f", "u0930", "u094d", "u091a">>,
         <<"c", "h", "i", "l", "i">>,
         <<"p", "e", "p", "p", "e", "r">>,
         <<"h", "a", "r", "i", " ", "m", "i", "r", "c", "h">>>>],
    [id |-> "cabbage",
     name |-> <<"C", "a", "b", "b", "a", "g", "e">>,
     nameHindi |-> <<"u092a", "u0924", "u094d", "u0924", "u093e", "u0917", "u094b", "u092d", "u0940">>,
     nameTamil |-> <<"u0bae", "u0bc1", "u0b9f", "u0bcd", "u0b9f", "u0bc8", "u0b95", "u0bcb", "u0bb8", "u0bcd">>,
     priceMin |-> 8, priceMax |-> 12,
     aliases |->
       <<<<"c", "a", "b", "b", "a", "g", "e">>,
         <<"p", "a", "t", "t", "a", " ", "g", "o", "b", "h", "i">>,
         <<"u092a", "u0924", "u094d", "u0924", "u093e", "u0917", "u094b", "u092d", "u0940">>,
         <<"b", "a", "n", "d", "h", " ", "g", "o", "b", "i">>>>]
  >>

\* the transaction store, the second translation service and the event loop
\* before any call: the slots are empty, nothing is suspended
InitLater ==
  /\ reply = NoReply
  /\ transactions = <<>>
  /\ txStorage = [present |-> FALSE, items |-> <<>>]
  /\ txLast = NoTransactionCall
  /\ issued = <<>>
  /\ advising = <<>>
  /\ catalog = [i \in 1..Len(SAMPLE_PRICES) |->
                  [id |-> SAMPLE_PRICES[i].id,
                   priceMin |-> SAMPLE_PRICES[i].priceMin,
                   priceMax |-> SAMPLE_PRICES[i].priceMax]]
  /\ peerCache = <<>>
  /\ pending = <<>>
  /\ peerPending = <<>>

NoResult ==
  [translatedText |-> <<>>, confidence |-> 0, originalText |-> <<>>,
   fromLanguage |-> "", toLanguage |-> "", preservedTerms |-> <<>>,
   timestamp |-> 0]

\* getCacheKey without the language codes
getCacheKey_textOnly(text, fromLang, toLang) == trim(toLowerCase(text))

\* `${fromLang}:${toLang}:${text.toLowerCase().trim()}`
getCacheKey(text, fromLang, toLang) ==
  <<fromLang, ":", toLang, ":">> \o trim(toLowerCase(text))

\* Map.has, Map.get, Map.set, Map.delete on the entries in insertion order
MapHas(map, key) == \E i \in 1..Len(map) : map[i].key = key
MapIndex(map, key) == CHOOSE i \in 1..Len(map) : map[i].key = key
MapGet(map, key) == map[MapIndex(map, key)]
MapSet(map, key, entry) ==
  IF MapHas(map, key) THEN [map EXCEPT ![MapIndex(map, key)] = entry]
  ELSE Append(map, entry)
MapDelete(map, key) == SelectSeq(map, LAMBDA e : e.key # key)

\* getFromCache that returns the result and leaves the statistics alone
getFromCache_noStats(map, key, time) ==
  IF MapHas(map, key)
  THEN [found |-> TRUE, result |-> MapGet(map, key).result, cache |-> map]
  ELSE [found |-> FALSE, result |-> NoResult, cache |-> map]

getFromCache(map, key, time) ==
  IF MapHas(map, key)
  THEN LET cached == MapGet(map, key)
           used == [cached EXCEPT !.usageCount = cached.usageCount + 1,
                                  !.lastUsed = time]
       IN [found |-> TRUE, result |-> cached.result,
           cache |-> MapSet(map, key, used)]
  ELSE [found |-> FALSE, result |-> NoResult, cache |-> map]

NoKey == <<>>

RECURSIVE OldestFrom(_, _, _, _)
\* the loop of evictOldestCacheEntry from entry i on
OldestFrom(map, i, oldestKey, oldestTime) ==
  IF i > Len(map) THEN oldestKey
  ELSE IF map[i].lastUsed < oldestTime
       THEN OldestFrom(map, i + 1, map[i].key, map[i].lastUsed)
       ELSE OldestFrom(map, i + 1, oldestKey, oldestTime)

evictOldestCacheEntry(map, time) ==
  LET oldestKey == OldestFrom(map, 1, NoKey, time)
  IN IF oldestKey # NoKey THEN MapDelete(map, oldestKey) ELSE map

\* Date.toJSON and new Date(string)
toISOString(time) == [iso |-> time]
parseDate(string) == string.iso

\* JSON.stringify(Array.from(this.cache.values())) into the slot
saveCacheToStorage(map) ==
  [present |-> TRUE,
   items |-> [i \in 1..Len(map) |->
     [key |-> map[i].key,
      result |-> [map[i].result EXCEPT
                    !.timestamp = toISOString(map[i].result.timestamp)],
      usageCount |-> map[i].usageCount,
      lastUsed |-> toISOString(map[i].lastUsed)]]]

RECURSIVE MapFromItems(_, _)
\* new Map(data.map(item => [item.key, {...}]))
MapFromItems(items, map) ==
  IF items = <<>> THEN map
  ELSE LET item == Head(items)
           entry == [key |-> item.key,
                     result |-> [item.result EXCEPT
                                   !.timestamp = parseDate(item.result.timestamp)],
                     usageCount |-> item.usageCount,
                     lastUsed |-> parseDate(item.lastUsed)]
       IN MapFromItems(Tail(items), MapSet(map, item.key, entry))

loadCacheFromStorage(stored) ==
  IF stored.present THEN MapFromItems(stored.items, <<>>) ELSE <<>>

\* addToCache that evicts but never writes the slot
addToCache_noSave(map, stored, key, result, time) ==
  LET room == IF Len(map) >= MAX_CACHE_SIZE
              THEN evictOldestCacheEntry(map, time) ELSE map
      added == MapSet(room, key, [key |-> key, result |-> result,
                                  usageCount |-> 1, lastUsed |-> time])
  IN [cache |-> added, storage |-> stored]

\* addToCache that writes the slot and leaves the Map as it was
addToCache_noInsert(map, stored, key, result, time) ==
  [cache |-> map, storage |-> saveCacheToStorage(map)]

addToCache(map, stored, key, result, time) ==
  LET room == IF Len(map) >= MAX_CACHE_SIZE
              THEN evictOldestCacheEntry(map, time) ELSE map
      added == MapSet(room, key, [key |-> key, result |-> result,
                                  usageCount |-> 1, lastUsed |-> time])
  IN [cache |-> added, storage |-> saveCacheToStorage(added)]

\* translateMessage from its first line to the await of performTranslation
\* (lines 864-897): it returns from the cache or from the same-language
\* branch, or it reaches the await
translateMessage_noSameLanguage(map, text, fromLang, toLang, time) ==
  LET cacheKey == getCacheKey(text, fromLang, toLang)
      cached == getFromCache(map, cacheKey, time)
  IN IF cached.found
     THEN [cache |-> cached.cache, result |-> cached.result, path |-> "hit"]
     ELSE [cache |-> map, result |-> NoResult, path |-> "await"]

translateMessage(map, text, fromLang, toLang, time) ==
  LET cacheKey == getCacheKey(text, fromLang, toLang)
      cached == getFromCache(map, cacheKey, time)
  IN IF cached.found
     THEN [cache |-> cached.cache, result |-> cached.result, path |-> "hit"]
     ELSE IF fromLang = toLang
     THEN [cache |-> map,
           result |-> [translatedText |-> text, confidence |-> 100,
                       originalText |-> text, fromLanguage |-> fromLang,
                       toLanguage |-> toLang, preservedTerms |-> <<>>,
                       timestamp |-> time],
           path |-> "identity"]
     ELSE [cache |-> map, result |-> NoResult, path |-> "await"]

\* translateMessage from the value awaited on: lines 896-930, and the catch
resumeTranslateMessage(map, stored, useMock, client, text, fromLang, toLang, outcome, time) ==
  LET cacheKey == getCacheKey(text, fromLang, toLang)
      extracted == extractCommercialTerms(text)
      translatedText ==
        performTranslation(useMock, client, extracted.cleanText,
                           fromLang, toLang, outcome)
  IN IF translatedText = Throw
     THEN [cache |-> map, storage |-> stored,
           result |-> [translatedText |-> text, confidence |-> 0,
                       originalText |-> text, fromLanguage |-> fromLang,
                       toLanguage |-> toLang, preservedTerms |-> <<>>,
                       timestamp |-> time],
           path |-> "failure", backendCalls |-> 1]
     ELSE LET finalText ==
                restoreCommercialTerms(translatedText, extracted.preservedTerms)
              confidence ==
                calculateConfidence(text, translatedText, fromLang, toLang)
              result ==
                [translatedText |-> finalText, confidence |-> confidence,
                 originalText |-> text, fromLanguage |-> fromLang,
                 toLanguage |-> toLang,
                 preservedTerms |->
                   [i \in 1..Len(extracted.preservedTerms) |->
                      extracted.preservedTerms[i].term],
                 timestamp |-> time]
              added == addToCache(map, stored, cacheKey, result, time)
          IN [cache |-> added.cache, storage |-> added.storage,
              result |-> result, path |-> "fresh", backendCalls |-> 1]

\* ------------------------------------------------------------------ actions
\* translateMessage is an async function: a call runs from its first line to
\* the await of performTranslation (line 897) without interruption, and from
\* the value awaited to its return without interruption; other calls run in
\* between.  A call suspended at the await is an element of pending.

NoCall ==
  [op |-> "none", text |-> <<>>, fromLang |-> "", toLang |-> "", path |-> "none",
   result |-> NoResult, backendCalls |-> 0, repeated |-> FALSE]

\* the state after the constructor, in a browser whose slot is empty
Init ==
  /\ storage = [present |-> FALSE, items |-> <<>>]
  /\ cache = loadCacheFromStorage(storage)
  /\ useMockTranslation = TRUE
  /\ translateClient = "null"
  /\ now = 0
  /\ calls = 0
  /\ last = NoCall
  /\ search = NoSearch
  /\ advice = NoAdvice
  /\ stalled = [op |-> "none", previousOffers |-> <<>>, result |-> FALSE]
  /\ InitLater

\* what the client does when a call reaches it; none is configured when the
\* mock is in use
OutcomesOf(useMock, client) ==
  IF useMock \/ client = "null" THEN {"none"} ELSE ClientOutcomes

\* a call suspended at the await, and whether it was made right after a
\* completed call with the same arguments
Suspended(op, text, fromLang, toLang) ==
  [text |-> text, fromLang |-> fromLang, toLang |-> toLang,
   repeated |-> /\ last.op = op /\ last.text = text
                /\ last.fromLang = fromLang /\ last.toLang = toLang]

\* queue without its k-th element
Without(queue, k) ==
  [i \in 1..(Len(queue) - 1) |-> IF i < k THEN queue[i] ELSE queue[i + 1]]

\* translationService.translateMessage(text, fromLang, toLang) is called: it
\* returns from the cache or from the same-language branch, or it reaches the
\* await and is suspended
TranslateMessage(text, fromLang, toLang) ==
  /\ calls + Len(pending) + Len(peerPending) < MaxCalls
  /\ \E done \in {translateMessage(cache, text, fromLang, toLang, now)} :
       IF done.path = "await"
       THEN /\ Len(pending) < MaxPending
            /\ pending' = Append(pending, Suspended("translate", text, fromLang, toLang))
            /\ UNCHANGED <<cache, last, calls>>
       ELSE /\ cache' = done.cache
            /\ last' = [op |-> "translate", text |-> text, fromLang |-> fromLang,
                        toLang |-> toLang, path |-> done.path,
                        result |-> done.result, backendCalls |-> 0,
                        repeated |-> Suspended("translate", text, fromLang,
                                               toLang).repeated]
            /\ calls' = calls + 1
            /\ UNCHANGED pending
  /\ UNCHANGED <<storage, useMockTranslation, translateClient, now, peerCache,
                 peerPending, advising, resolverVars, advisorVars, replyVars,
                 transactionVars>>

\* the value awaited by the k-th suspended call arrives: the call runs to its
\* return
ResumeTranslateMessage(k) ==
  /\ k \in 1..Len(pending)
  /\ \E outcome \in OutcomesOf(useMockTranslation, translateClient) :
     \E done \in {resumeTranslateMessage(cache, storage, useMockTranslation,
                                         translateClient, pending[k].text,
                                         pending[k].fromLang, pending[k].toLang,
                                         outcome, now)} :
       /\ cache' = done.cache
       /\ storage' = done.storage
       /\ last' = [op |-> "translate", text |-> pending[k].text,
                   fromLang |-> pending[k].fromLang, toLang |-> pending[k].toLang,
                   path |-> done.path, result |-> done.result,
                   backendCalls |-> done.backendCalls,
                   repeated |-> pending[k].repeated]
  /\ pending' = Without(pending, k)
  /\ calls' = calls + 1
  /\ UNCHANGED <<useMockTranslation, translateClient, now, peerCache,
                 peerPending, advising, resolverVars, advisorVars, replyVars,
                 transactionVars>>

\* translationService.clearCache()
ClearCache ==
  /\ calls + Len(pending) + Len(peerPending) < MaxCalls
  /\ cache' = <<>>
  /\ storage' = saveCacheToStorage(cache')
  /\ last' = [NoCall EXCEPT !.op = "clear"]
  /\ calls' = calls + 1
  /\ UNCHANGED <<useMockTranslation, translateClient, now, resolverVars,
                 advisorVars, replyVars, transactionVars, concurrencyVars>>

\* the page is loaded again, with no call suspended: new TranslationService()
\* reads the slot
Construct ==
  /\ calls < MaxCalls
  /\ pending = <<>>
  /\ peerPending = <<>>
  /\ cache' = loadCacheFromStorage(storage)
  /\ last' = [NoCall EXCEPT !.op = "construct"]
  /\ calls' = calls + 1
  /\ UNCHANGED <<storage, useMockTranslation, translateClient, now, resolverVars,
                 advisorVars, replyVars, transactionVars, concurrencyVars>>

\* a millisecond passes
Tick ==
  /\ now < MaxTime
  /\ now' = now + 1
  /\ UNCHANGED <<cache, storage, useMockTranslation, translateClient, calls, last,
                 resolverVars, advisorVars, replyVars, transactionVars,
                 concurrencyVars>>

Next ==
  \/ \E text \in Texts, fromLang \in Langs, toLang \in Langs :
       TranslateMessage(text, fromLang, toLang)
  \/ \E k \in 1..MaxPending : ResumeTranslateMessage(k)
  \/ ClearCache
  \/ Construct
  \/ Tick

Spec == Init /\ [][Next]_vars

\* one call, with any text of PureTexts between any two supported languages
NextPure ==
  \/ \E text \in PureTexts, fromLang \in LanguageCode, toLang \in LanguageCode :
       calls = 0 /\ pending = <<>> /\ TranslateMessage(text, fromLang, toLang)
  \/ ResumeTranslateMessage(1)

SpecPure == Init /\ [][NextPure]_vars

\* --------------------------------------------------- the commodity resolver

\* A name or a query is the sequence of its UTF-16 code units: an ASCII
\* character is written as itself, a Devanagari or Tamil code unit as u
\* followed by its four hexadecimal digits.

\* the longest query made of characters of QueryAlphabet
MaxQueryLen == 3
\* the most filler words in a query made of filler words only
MaxFillers == 2

LowerLetters ==
  <<"a", "b", "c", "d", "e", "f", "g", "h", "i", "j", "k", "l", "m",
    "n", "o", "p", "q", "r", "s", "t", "u", "v", "w", "x", "y", "z">>
UpperLetters ==
  <<"A", "B", "C", "D", "E", "F", "G", "H", "I", "J", "K", "L", "M",
    "N", "O", "P", "Q", "R", "S", "T", "U", "V", "W", "X", "Y", "Z">>

\* String.toLowerCase and String.toUpperCase of one code unit: the code
\* units of the two Indic scripts have no case
LowerChar(c) ==
  IF \E k \in 1..26 : UpperLetters[k] = c
  THEN LowerLetters[CHOOSE k \in 1..26 : UpperLetters[k] = c] ELSE c
UpperChar(c) ==
  IF \E k \in 1..26 : LowerLetters[k] = c
  THEN UpperLetters[CHOOSE k \in 1..26 : LowerLetters[k] = c] ELSE c
LowerString(s) == [k \in 1..Len(s) |-> LowerChar(s[k])]
UpperString(s) == [k \in 1..Len(s) |-> UpperChar(s[k])]

\* searchCommodity's null
NotFound == [id |-> "null"]

RECURSIVE CollapseSpaces(_)
\* .replace(/\s+/g, ' ')
CollapseSpaces(s) ==
  IF Len(s) < 2 THEN s
  ELSE IF IsSpace(s[1]) /\ IsSpace(s[2]) THEN CollapseSpaces(Tail(s))
  ELSE <<s[1]>> \o CollapseSpaces(Tail(s))

\* the alternatives of /price|rate|bhav|cost|value/gi
FillerWords ==
  <<<<"p", "r", "i", "c", "e">>, <<"r", "a", "t", "e">>, <<"b", "h", "a", "v">>,
    <<"c", "o", "s", "t">>, <<"v", "a", "l", "u", "e">>>>

StartsWith(s, w) == Len(s) >= Len(w) /\ SubSeq(s, 1, Len(w)) = w

RECURSIVE RemoveFillers(_)
\* .replace(/price|rate|bhav|cost|value/gi, ''): every match, left to right
RemoveFillers(s) ==
  IF s = <<>> THEN s
  ELSE IF \E k \in 1..Len(FillerWords) : StartsWith(LowerString(s), FillerWords[k])
  THEN LET k == CHOOSE k \in 1..Len(FillerWords) :
                  /\ StartsWith(LowerString(s), FillerWords[k])
                  /\ \A m \in 1..(k - 1) : ~StartsWith(LowerString(s), FillerWords[m])
       IN RemoveFillers(SubSeq(s, Len(FillerWords[k]) + 1, Len(s)))
  ELSE <<Head(s)>> \o RemoveFillers(Tail(s))

\* normalizeName without the removal of the price-related words
normalizeName_keepsFillers(name) == trim(CollapseSpaces(trim(LowerString(name))))

normalizeName(name) ==
  trim(RemoveFillers(CollapseSpaces(trim(LowerString(name)))))

\* a score is the fraction n/d; the scores 1.0, 0.8, 0.5 and 0
Score(n, d) == [n |-> n, d |-> d]
\* score > bestScore, with >= in place of >
Greater_orEqual(a, b) == a.n * b.d >= b.n * a.d
\* score > bestScore
Greater(a, b) == a.n * b.d > b.n * a.d

\* String.includes
includes(s, t) ==
  \E k \in 0..(Len(s) - Len(t)) : SubSeq(s, k + 1, k + Len(t)) = t

\* new Set(s.split(''))
CharSet(s) == {s[k] : k \in 1..Len(s)}

calculateSimilarity(str1, str2) ==
  LET s1 == LowerString(str1)
      s2 == LowerString(str2)
  IN IF s1 = s2 THEN Score(1, 1)
     ELSE IF includes(s1, s2) \/ includes(s2, s1) THEN Score(4, 5)
     ELSE Score(Cardinality(CharSet(s1) \cap CharSet(s2)),
                Cardinality(CharSet(s1) \cup CharSet(s2)))

\* searchTerms without the Tamil name
searchTerms_noTamil(commodity) ==
  <<commodity.name, commodity.nameHindi, <<>>>> \o commodity.aliases

\* [commodity.name, commodity.nameHindi, commodity.nameTamil || '',
\*  ...commodity.aliases]
searchTerms(commodity) ==
  <<commodity.name, commodity.nameHindi, commodity.nameTamil>> \o commodity.aliases

\* bestScore and bestMatch before the loops: bestMatch is the index of a
\* record of SAMPLE_PRICES, 0 for null
NoMatch == [score |-> Score(0, 1), match |-> 0]

RECURSIVE ScanTerms(_, _, _, _, _)
\* for (const term of searchTerms), from the k-th term on: updated is
\* bestScore and bestMatch after the k-th term
ScanTerms(terms, k, i, normalizedQuery, best) ==
  IF k > Len(terms) THEN best
  ELSE LET score == calculateSimilarity(normalizedQuery, LowerString(terms[k]))
       IN CHOOSE after \in
            {ScanTerms(terms, k + 1, i, normalizedQuery, updated) :
               updated \in {IF Greater(score, best.score)
                            THEN [score |-> score, match |-> i] ELSE best}} : TRUE

RECURSIVE ScanCatalog(_, _, _)
\* for (const commodity of SAMPLE_PRICES), from the i-th record on: scanned
\* is bestScore and bestMatch after the i-th record
ScanCatalog(i, normalizedQuery, best) ==
  IF i > Len(SAMPLE_PRICES) THEN best
  ELSE CHOOSE after \in
         {ScanCatalog(i + 1, normalizedQuery, scanned) :
            scanned \in {ScanTerms(searchTerms(SAMPLE_PRICES[i]), 1, i,
                                   normalizedQuery, best)}} : TRUE

\* searchCommodity returning the record scanned last when any term scores
\* above the threshold
searchCommodity_lastScanned(query) ==
  LET normalizedQuery == normalizeName(query)
  IN IF normalizedQuery = <<>> THEN NotFound
     ELSE LET best == ScanCatalog(1, normalizedQuery, NoMatch)
          IN IF Greater(best.score, Score(1, 2))
             THEN SAMPLE_PRICES[Len(SAMPLE_PRICES)] ELSE NotFound

searchCommodity(query) ==
  LET normalizedQuery == normalizeName(query)
  IN IF normalizedQuery = <<>> THEN NotFound
     ELSE LET best == ScanCatalog(1, normalizedQuery, NoMatch)
          IN IF Greater(best.score, Score(1, 2))
             THEN SAMPLE_PRICES[best.match] ELSE NotFound

\* ------------------------------------------------------ the queries made

CatalogIndices == 1..Len(SAMPLE_PRICES)

\* the canonical names, and the aliases and localized names of a record
LocalNames(i) ==
  {SAMPLE_PRICES[i].nameHindi, SAMPLE_PRICES[i].nameTamil}
    \cup {SAMPLE_PRICES[i].aliases[k] : k \in 1..Len(SAMPLE_PRICES[i].aliases)}
CatalogQueries ==
  UNION {{SAMPLE_PRICES[i].name, UpperString(SAMPLE_PRICES[i].name)}
           \cup LocalNames(i) \cup {UpperString(t) : t \in LocalNames(i)} :
         i \in CatalogIndices}

RECURSIVE StringsUpTo(_, _)
\* the strings of at most n characters of an alphabet
StringsUpTo(alphabet, n) ==
  IF n = 0 THEN {<<>>}
  ELSE LET shorter == StringsUpTo(alphabet, n - 1)
       IN shorter \cup {<<c>> \o s : c \in alphabet, s \in shorter}

QueryAlphabet == {"a", "b", "n", "g", Space}
ShortQueries == StringsUpTo(QueryAlphabet, MaxQueryLen)

RECURSIVE FillerQueriesOf(_)
\* the queries of n filler words, upper or lower case, separated and
\* surrounded by spaces
FillerQueriesOf(n) ==
  LET words == {FillerWords[k] : k \in 1..Len(FillerWords)}
                 \cup {UpperString(FillerWords[k]) : k \in 1..Len(FillerWords)}
  IN IF n = 0 THEN {<<>>, <<Space>>, <<Space, Space>>}
     ELSE {q \o w \o <<Space>> : q \in FillerQueriesOf(n - 1), w \in words}
FillerQueries == UNION {FillerQueriesOf(n) : n \in 0..MaxFillers}

\* misspellings, plurals, queries with price words, names not in the catalog
OtherQueries ==
  {<<"b", "a", "n", "a", "n", "a">>,
   <<"t", "o", "m", "a", "t", "o", "e">>,
   <<"T", "o", "m", "a", "t", "o", "e", "s">>,
   <<"r", "i", "c", "e", Space, "p", "r", "i", "c", "e">>,
   <<"a", "l", "o", "o", Space, "k", "a", Space, "b", "h", "a", "v">>,
   <<Space, "O", "n", "i", "o", "n", Space, Space, "r", "a", "t", "e", Space>>,
   <<"u", "n", "k", "n", "o", "w", "n", "-", "c", "o", "m", "m", "o", "d", "i", "t", "y">>,
   <<"x", "y", "z">>}

Queries == CatalogQueries \cup ShortQueries \cup FillerQueries \cup OtherQueries

\* priceDiscoveryService.searchCommodity(query)
SearchCommodity(query) ==
  /\ search' = [op |-> "search", query |-> query, result |-> searchCommodity(query)]
  /\ UNCHANGED <<catalog, translationVars, advisorVars, replyVars, transactionVars,
                 concurrencyVars>>

\* one call, with any query of Queries
NextSearch == \E query \in Queries : search.op = "none" /\ SearchCommodity(query)

SpecSearch == Init /\ [][NextSearch]_vars

\* ------------------------------------------------- the negotiation service

\* A price is a number of half rupees: the mean of a catalog record's
\* priceMin and priceMax is a multiple of 0.5, and the doubles k/2 and the
\* arithmetic done on them here are exact up to the comparisons made (the
\* products by 1.05, 0.95 and 0.98 round to the same integer as the exact
\* ones for every price used).  The context's userLanguage and
\* vendorLanguage, and the message and reasoning texts of a suggestion, take
\* no part in what is computed and are left out.

\* the most previous offers in a context
MaxHistory == 2

\* !x of an optional number: undefined and 0 are falsy
Falsy(x) == ~x.present \/ x.value = 0

\* Math.round of the fraction n/d, d > 0 and n >= 0: the nearest integer,
\* a half rounded up
MathRound(n, d) == (2 * n + d) \div (2 * d)

\* an integer number of rupees, in half rupees
Rupees(n) == 2 * n

\* priceDiscoveryService.getPrice(commodity) to its await (part_004 lines
\* 89-100): the index in SAMPLE_PRICES of the record searchCommodity finds,
\* or 0 for null.  The text generateConversationalResponse makes for the
\* record takes no part in what the negotiation service computes and is left
\* out.
getPrice(commodityName) ==
  LET commodity == searchCommodity(commodityName)
  IN IF commodity = NotFound THEN 0
     ELSE CHOOSE i \in 1..Len(SAMPLE_PRICES) : SAMPLE_PRICES[i] = commodity

\* priceResult.commodity when the call resumes: the prices of the record as
\* they are then
PriceResult(prices, found) == IF found = 0 THEN NotFound ELSE prices[found]

\* resolveReferencePrice with the record's priceMin in place of the mean
resolveReferencePrice_priceMin(context, priceResult) ==
  IF ~Falsy(context.marketPrice) THEN context.marketPrice
  ELSE IF priceResult # NotFound
       THEN Number(2 * priceResult.priceMin)
       ELSE context.marketPrice

\* referencePrice after lines 34-41: the market price of the context, or
\* (priceMin + priceMax) / 2 of the record that getPrice found, read after
\* the await
resolveReferencePrice(context, priceResult) ==
  IF ~Falsy(context.marketPrice) THEN context.marketPrice
  ELSE IF priceResult # NotFound
       THEN Number(priceResult.priceMin + priceResult.priceMax)
       ELSE context.marketPrice

generateHighOfferSuggestion(offer, marketPrice, isFirstOffer) ==
  LET counterOffer == Rupees(MathRound(marketPrice * 105, 200))
  IN [type |-> "counter", tone |-> "polite", suggestedPrice |-> Number(counterOffer)]

\* generateLowOfferSuggestion with the tone of a first offer at every offer
generateLowOfferSuggestion_alwaysPolite(offer, marketPrice, isFirstOffer) ==
  LET counterOffer == Rupees(MathRound(marketPrice * 95, 200))
  IN [type |-> IF isFirstOffer THEN "reject" ELSE "counter",
      tone |-> "polite", suggestedPrice |-> Number(counterOffer)]

generateLowOfferSuggestion(offer, marketPrice, isFirstOffer) ==
  LET counterOffer == Rupees(MathRound(marketPrice * 95, 200))
  IN [type |-> IF isFirstOffer THEN "reject" ELSE "counter",
      tone |-> IF isFirstOffer THEN "polite" ELSE "firm",
      suggestedPrice |-> Number(counterOffer)]

\* generateFairOfferSuggestion that counters whatever the history
generateFairOfferSuggestion_alwaysCounters(offer, marketPrice, hasCountered) ==
  [type |-> "counter", tone |-> "polite",
   suggestedPrice |-> Number(Rupees(MathRound(offer * 98, 200)))]

generateFairOfferSuggestion(offer, marketPrice, hasCountered) ==
  IF hasCountered
  THEN [type |-> "accept", tone |-> "polite", suggestedPrice |-> Undefined]
  ELSE LET counterOffer == Rupees(MathRound(offer * 98, 200))
       IN [type |-> "counter", tone |-> "polite",
           suggestedPrice |-> Number(counterOffer)]

\* generateModerateOfferSuggestion that meets the offer halfway
generateModerateOfferSuggestion_halfway(offer, marketPrice, isHigh) ==
  LET counterOffer == Rupees(MathRound(offer + marketPrice, 4))
  IN [type |-> "counter", tone |-> "polite", suggestedPrice |-> Number(counterOffer)]

generateModerateOfferSuggestion(offer, marketPrice, isHigh) ==
  LET counterOffer == Rupees(MathRound(marketPrice, 2))
  IN [type |-> "counter", tone |-> "polite", suggestedPrice |-> Number(counterOffer)]

\* ((currentOffer - referencePrice) / referencePrice) * 100, as a fraction
Difference(currentOffer, referencePrice) ==
  [n |-> (currentOffer - referencePrice) * 100, d |-> referencePrice]

\* getNegotiationSuggestion from the value awaited on, or from its first line
\* when the context carries a market price and nothing is awaited
getNegotiationSuggestion(context, priceResult) ==
  LET referencePrice == resolveReferencePrice(context, priceResult)
  IN IF Falsy(referencePrice)
     THEN [type |-> "info", tone |-> "neutral", suggestedPrice |-> Undefined]
     ELSE LET difference == Difference(context.currentOffer, referencePrice.value)
              isFirstOffer == Len(context.previousOffers) = 0
              hasCountered == Len(context.previousOffers) > 0
          IN IF difference.n > 15 * difference.d
             THEN generateHighOfferSuggestion(context.currentOffer,
                                              referencePrice.value, isFirstOffer)
             ELSE IF difference.n < (-15) * difference.d
             THEN generateLowOfferSuggestion(context.currentOffer,
                                             referencePrice.value, isFirstOffer)
             ELSE IF /\ difference.n <= 5 * difference.d
                     /\ difference.n >= (-5) * difference.d
             THEN generateFairOfferSuggestion(context.currentOffer,
                                              referencePrice.value, hasCountered)
             ELSE generateModerateOfferSuggestion(context.currentOffer,
                                                  referencePrice.value,
                                                  difference.n > 0)

suggestCompromise(yourLastOffer, theirLastOffer) ==
  LET midpoint == Rupees(MathRound(yourLastOffer + theirLastOffer, 4))
  IN [type |-> "counter", tone |-> "polite", suggestedPrice |-> Number(midpoint)]

\* the market prices 0.5, 1.5 and 20, and the offers around the limits of
\* 5% and 15% above and below each of them
MarketPrices == {1, 3, 40}
Offers == {0, 1, 2, 3, 4, 33, 34, 37, 38, 40, 42, 43, 46, 47}

\* commodities that resolve (Tomato, mean price 20; Wheat, mean price 2175)
\* and that do not
Commodities ==
  {<<"t", "o", "m", "a", "t", "o">>, <<"W", "h", "e", "a", "t">>,
   <<"u", "n", "k", "n", "o", "w", "n", "-", "c", "o", "m", "m", "o", "d", "i", "t", "y">>,
   <<>>}

\* negotiationService.getNegotiationSuggestion(context) is called: with a
\* market price it runs to its return; without one it calls getPrice, which
\* looks the commodity up, and is suspended at the await (line 36)
GetNegotiationSuggestion(context) ==
  /\ IF Falsy(context.marketPrice)
     THEN /\ Len(advising) < MaxPending
          /\ advising' = Append(advising,
                                [context |-> context,
                                 found |-> getPrice(context.commodity)])
          /\ UNCHANGED advice
     ELSE /\ advice' = [op |-> "advise", context |-> context,
                        suggestion |-> getNegotiationSuggestion(context, NotFound)]
          /\ UNCHANGED advising
  /\ UNCHANGED <<translationVars, resolverVars, stalled, replyVars, transactionVars,
                 peerCache, pending, peerPending>>

\* the value awaited by the k-th suspended call arrives: the call reads
\* priceMin and priceMax of the record found and runs to its return
ResumeGetNegotiationSuggestion(k) ==
  /\ k \in 1..Len(advising)
  /\ advice' = [op |-> "advise", context |-> advising[k].context,
                suggestion |-> getNegotiationSuggestion(
                                 advising[k].context,
                                 PriceResult(catalog, advising[k].found))]
  /\ advising' = Without(advising, k)
  /\ UNCHANGED <<translationVars, resolverVars, stalled, replyVars, transactionVars,
                 peerCache, pending, peerPending>>

\* the first offer of a negotiation
FirstOffer(commodity, marketPrice, offer) ==
  GetNegotiationSuggestion([commodity |-> commodity, marketPrice |-> marketPrice,
                            currentOffer |-> offer, previousOffers |-> <<>>])

\* a further offer: the offer before it has joined the previous offers
NextOffer(offer) ==
  /\ advice.op = "advise"
  /\ Len(advice.context.previousOffers) < MaxHistory
  /\ GetNegotiationSuggestion(
       [advice.context EXCEPT
          !.previousOffers = Append(@, advice.context.currentOffer),
          !.currentOffer = offer])

\* negotiationService.suggestCompromise(yourLastOffer, theirLastOffer)
SuggestCompromise(yourLastOffer, theirLastOffer) ==
  /\ advice' = [op |-> "compromise",
                context |-> [commodity |-> <<>>, marketPrice |-> Undefined,
                             currentOffer |-> yourLastOffer,
                             previousOffers |-> <<theirLastOffer>>],
                suggestion |-> suggestCompromise(yourLastOffer, theirLastOffer)]
  /\ UNCHANGED <<translationVars, resolverVars, stalled, replyVars, transactionVars,
                 concurrencyVars>>

\* negotiations over a commodity whose market price the context carries
NextAdvisor ==
  \/ \E marketPrice \in MarketPrices, offer \in Offers :
       FirstOffer(<<"t", "o", "m", "a", "t", "o">>, Number(marketPrice), offer)
  \/ \E offer \in Offers : NextOffer(offer)
  \/ \E yourLastOffer \in Offers, theirLastOffer \in Offers :
       SuggestCompromise(yourLastOffer, theirLastOffer)

SpecAdvisor == Init /\ [][NextAdvisor]_vars

\* a call, with or without a market price, with or without previous offers;
\* while it is suspended, calls with the same context and another offer
NextReference ==
  \/ \E commodity \in Commodities, marketPrice \in {Undefined, Number(0), Number(40)},
        offer \in Offers, previousOffers \in {<<>>, <<40>>} :
       /\ advice.op = "none"
       /\ advising = <<>>
       /\ GetNegotiationSuggestion([commodity |-> commodity,
                                    marketPrice |-> marketPrice,
                                    currentOffer |-> offer,
                                    previousOffers |-> previousOffers])
  \/ \E offer \in {0, 40} :
       /\ advising # <<>>
       /\ GetNegotiationSuggestion([advising[1].context EXCEPT
                                      !.currentOffer = offer])
  \/ \E k \in 1..MaxPending : ResumeGetNegotiationSuggestion(k)

SpecReference == Init /\ [][NextReference]_vars

\* ------------------------------------------------- stalled negotiations

\* the most offers given to isNegotiationStalled
MaxOffers == 4

Abs(x) == IF x < 0 THEN -x ELSE x

\* The offers are integers, and the service computes in IEEE doubles.  The
\* sum of three offers is exact; avg is sum / 3 rounded to 53 bits, and
\* (offer - avg) / avg is compared with the double nearest to 0.02.  With
\* d = |3 * offer - sum| and a = |sum| the exact quotient is d / a, and it is
\* at least 1 / (50 * a) away from 0.02 unless 50 * d = a, far more than the
\* rounding errors: the doubles decide as the exact numbers do.  When
\* 50 * d = a the exact quotient is 0.02 itself and the rounding of avg
\* decides: if 3 divides a, avg is exact and the quotient rounds to the
\* double 0.02, which is not below itself; if not, the offer is the one above
\* the mean, and the quotient computed is below 0.02 exactly when avg was
\* rounded away from zero.

RECURSIVE ExponentOfThird(_, _)
\* the largest e from e0 on with 3 * 2^e <= a: the exponent of the double a / 3
ExponentOfThird(a, e) ==
  IF 3 * (2 ^ (e + 1)) <= a THEN ExponentOfThird(a, e + 1) ELSE e

\* a / 3 is rounded away from zero: in units of the last place of the double,
\* 2^(e - 52), its fraction is ((a * 2^(52 - e)) % 3) / 3, and 2^(52 - e) % 3
\* is 1 for an even e and 2 for an odd e
ThirdRoundsUp(a) ==
  LET e == ExponentOfThird(a, 0)
  IN ((a % 3) * (IF e % 2 = 0 THEN 1 ELSE 2)) % 3 = 2

\* Math.abs((offer - avg) / avg) < 0.02 with avg = sum / 3; the quotient is
\* NaN or an infinity, which are not below 0.02, when sum is 0
IsSimilar(offer, sum) ==
  LET d == Abs(3 * offer - sum)
      a == Abs(sum)
  IN /\ sum # 0
     /\ \/ 50 * d < a
        \/ 50 * d = a /\ a % 3 # 0 /\ ThirdRoundsUp(a)

isNegotiationStalled(previousOffers) ==
  IF Len(previousOffers) < 3 THEN FALSE
  ELSE LET recent == SubSeq(previousOffers, Len(previousOffers) - 2,
                            Len(previousOffers))
           sum == recent[1] + recent[2] + recent[3]
       IN \A k \in 1..3 : IsSimilar(recent[k], sum)

\* offers that are equal, 2% apart, 1% apart and far apart
StalledOffers == {0, 16, 17, 33, 34, 98, 99, 100, 102}

RECURSIVE OfferSequences(_)
\* the sequences of at most n offers
OfferSequences(n) ==
  IF n = 0 THEN {<<>>}
  ELSE LET shorter == OfferSequences(n - 1)
       IN shorter \cup {Append(offers, offer) :
                          offers \in shorter, offer \in StalledOffers}

\* negotiationService.isNegotiationStalled(previousOffers)
IsNegotiationStalled(previousOffers) ==
  /\ stalled' = [op |-> "stalled", previousOffers |-> previousOffers,
                 result |-> isNegotiationStalled(previousOffers)]
  /\ UNCHANGED <<translationVars, resolverVars, advice, replyVars, transactionVars,
                 concurrencyVars>>

\* one call, with any sequence of offers
NextStalled ==
  \E previousOffers \in OfferSequences(MaxOffers) :
    stalled.op = "none" /\ IsNegotiationStalled(previousOffers)

SpecStalled == Init /\ [][NextStalled]_vars

\* ------------------------------------------------------------ transactions
\* transactionStore and transactionService (SessionManager.tsx).  A
\* transaction carries the fields the service reads or writes; the fields it
\* only passes through (negotiationSessionId, qualitySpecs) are left out, and
\* of metadata only cancellationReason is kept.  Dates are milliseconds, an
\* optional field is Undefined or Number(value).  generateId joins Date.now()
\* and a random suffix: the suffix is the number of the recording, so that no
\* two transactions share an id.

\* transactions held by the store at once
MaxTransactions == 1
\* transactions recorded in a run
MaxRecordings == 2

TradedCommodities == {"wheat"}
Quantities == {10, 25}
AgreedPrices == {100}
Ratings == {0, 1, 5, 6}

NoRatings == [present |-> FALSE, buyerRating |-> Undefined, sellerRating |-> Undefined]

HasTransaction(map, id) == \E i \in 1..Len(map) : map[i].id = id
TransactionIndex(map, id) == CHOOSE i \in 1..Len(map) : map[i].id = id

\* transactionStore.getTransaction(id), where the Map has the id
getTransaction(map, id) == map[TransactionIndex(map, id)]

\* JSON.stringify(Array.from(this.transactions.values())) into the slot
saveToLocalStorage(map) ==
  [present |-> TRUE,
   items |-> [i \in 1..Len(map) |->
     [map[i] EXCEPT
        !.createdAt = toISOString(map[i].createdAt),
        !.completedAt = IF map[i].completedAt.present
                        THEN Number(toISOString(map[i].completedAt.value))
                        ELSE Undefined]]]

\* transactionStore.saveTransaction(transaction)
saveTransaction(map, transaction) ==
  LET saved == IF HasTransaction(map, transaction.id)
               THEN [map EXCEPT ![TransactionIndex(map, transaction.id)] = transaction]
               ELSE Append(map, transaction)
  IN [transactions |-> saved, txStorage |-> saveToLocalStorage(saved)]

\* transactionStore.updateTransaction(id, updates), with Object.assign done by
\* the caller: updated is the transaction after the assignment
updateTransaction(map, stored, id, updated) ==
  IF HasTransaction(map, id)
  THEN LET saved == [map EXCEPT ![TransactionIndex(map, id)] = updated]
       IN [transactions |-> saved, txStorage |-> saveToLocalStorage(saved)]
  ELSE [transactions |-> map, txStorage |-> stored]

\* `txn-${Date.now()}-${random}`: the random suffix is taken to differ from
\* those of the ids issued before
generateId(time, suffix) == <<time, suffix>>

\* transactionStore.clearAll()
clearAll(map) == [transactions |-> <<>>, txStorage |-> saveToLocalStorage(<<>>)]

\* recordTransaction(buyerId, sellerId, commodity, quantity, agreedPrice)
recordTransaction(map, id, buyerId, sellerId, commodity, quantity, agreedPrice, time) ==
  LET transaction ==
        [id |-> id,
         buyerId |-> buyerId,
         sellerId |-> sellerId,
         commodity |-> commodity,
         quantity |-> quantity,
         agreedPrice |-> agreedPrice,
         totalAmount |-> quantity * agreedPrice,
         status |-> "pending",
         createdAt |-> time,
         completedAt |-> Undefined,
         cancellationReason |-> Undefined,
         ratings |-> NoRatings]
      saved == saveTransaction(map, transaction)
  IN [transactions |-> saved.transactions, txStorage |-> saved.txStorage,
      threw |-> "none"]

\* completeTransaction(transactionId)
completeTransaction(map, stored, transactionId, time) ==
  IF ~HasTransaction(map, transactionId)
  THEN [transactions |-> map, txStorage |-> stored,
        threw |-> "Transaction not found"]
  ELSE LET transaction == getTransaction(map, transactionId)
       IN IF transaction.status = "completed"
          THEN [transactions |-> map, txStorage |-> stored,
                threw |-> "Transaction already completed"]
          ELSE LET saved == updateTransaction(map, stored, transactionId,
                              [transaction EXCEPT !.status = "completed",
                                                  !.completedAt = Number(time)])
               IN [transactions |-> saved.transactions,
                   txStorage |-> saved.txStorage, threw |-> "none"]

\* cancelTransaction(transactionId, reason)
cancelTransaction(map, stored, transactionId, reason) ==
  IF ~HasTransaction(map, transactionId)
  THEN [transactions |-> map, txStorage |-> stored,
        threw |-> "Transaction not found"]
  ELSE LET transaction == getTransaction(map, transactionId)
       IN IF transaction.status = "completed"
          THEN [transactions |-> map, txStorage |-> stored,
                threw |-> "Cannot cancel completed transaction"]
          ELSE LET saved == updateTransaction(map, stored, transactionId,
                              [transaction EXCEPT !.status = "cancelled",
                                                  !.cancellationReason = Number(reason)])
               IN [transactions |-> saved.transactions,
                   txStorage |-> saved.txStorage, threw |-> "none"]

\* rateTransaction that records the rating of any transaction it finds
rateTransaction_anyStatus(map, stored, transactionId, ratingBy, rating) ==
  IF ~HasTransaction(map, transactionId)
  THEN [transactions |-> map, txStorage |-> stored,
        threw |-> "Transaction not found"]
  ELSE LET transaction == getTransaction(map, transactionId)
           ratings == [transaction.ratings EXCEPT !.present = TRUE]
           rated == IF ratingBy = "buyer"
                    THEN [ratings EXCEPT !.buyerRating = Number(rating)]
                    ELSE [ratings EXCEPT !.sellerRating = Number(rating)]
           saved == updateTransaction(map, stored, transactionId,
                                      [transaction EXCEPT !.ratings = rated])
       IN IF rating < 1 \/ rating > 5
          THEN [transactions |-> map, txStorage |-> stored,
                threw |-> "Rating must be between 1 and 5"]
          ELSE [transactions |-> saved.transactions,
                txStorage |-> saved.txStorage, threw |-> "none"]

\* rateTransaction(transactionId, ratingBy, rating)
rateTransaction(map, stored, transactionId, ratingBy, rating) ==
  IF ~HasTransaction(map, transactionId)
  THEN [transactions |-> map, txStorage |-> stored,
        threw |-> "Transaction not found"]
  ELSE LET transaction == getTransaction(map, transactionId)
           ratings == [transaction.ratings EXCEPT !.present = TRUE]
           rated == IF ratingBy = "buyer"
                    THEN [ratings EXCEPT !.buyerRating = Number(rating)]
                    ELSE [ratings EXCEPT !.sellerRating = Number(rating)]
           saved == updateTransaction(map, stored, transactionId,
                                      [transaction EXCEPT !.ratings = rated])
       IN IF transaction.status # "completed"
          THEN [transactions |-> map, txStorage |-> stored,
                threw |-> "Can only rate completed transactions"]
          ELSE IF rating < 1 \/ rating > 5
          THEN [transactions |-> map, txStorage |-> stored,
                threw |-> "Rating must be between 1 and 5"]
          ELSE [transactions |-> saved.transactions,
                txStorage |-> saved.txStorage, threw |-> "none"]

\* the ids a caller passes: those recordTransaction has returned, whether the
\* store still holds their transactions or not, and one that was never issued
UnknownId == <<0, 0>>
TransactionIds == {issued[i] : i \in 1..Len(issued)} \cup {UnknownId}

\* await transactionService.recordTransaction(...)
RecordTransaction(buyerId, sellerId, commodity, quantity, agreedPrice) ==
  /\ Len(transactions) < MaxTransactions
  /\ Len(issued) < MaxRecordings
  /\ \E id \in {generateId(now, Len(issued) + 1)} :
     \E done \in {recordTransaction(transactions, id, buyerId, sellerId, commodity,
                                    quantity, agreedPrice, now)} :
       /\ transactions' = done.transactions
       /\ txStorage' = done.txStorage
       /\ txLast' = [NoTransactionCall EXCEPT
                       !.op = "record", !.transactionId = id,
                       !.threw = done.threw]
       /\ issued' = Append(issued, id)
  /\ UNCHANGED <<translationVars, resolverVars, advisorVars, replyVars,
                 concurrencyVars>>

\* await transactionService.completeTransaction(transactionId)
CompleteTransaction(transactionId) ==
  /\ \E done \in {completeTransaction(transactions, txStorage, transactionId, now)} :
       /\ transactions' = done.transactions
       /\ txStorage' = done.txStorage
       /\ txLast' = [NoTransactionCall EXCEPT !.op = "complete",
                       !.transactionId = transactionId, !.threw = done.threw]
  /\ UNCHANGED <<issued, translationVars, resolverVars, advisorVars, replyVars,
                 concurrencyVars>>

\* await transactionService.cancelTransaction(transactionId, reason)
CancelTransaction(transactionId, reason) ==
  /\ \E done \in {cancelTransaction(transactions, txStorage, transactionId, reason)} :
       /\ transactions' = done.transactions
       /\ txStorage' = done.txStorage
       /\ txLast' = [NoTransactionCall EXCEPT !.op = "cancel",
                       !.transactionId = transactionId, !.threw = done.threw]
  /\ UNCHANGED <<issued, translationVars, resolverVars, advisorVars, replyVars,
                 concurrencyVars>>

\* await transactionService.rateTransaction(transactionId, ratingBy, rating)
RateTransaction(transactionId, ratingBy, rating) ==
  /\ \E done \in {rateTransaction(transactions, txStorage, transactionId,
                                  ratingBy, rating)} :
       /\ transactions' = done.transactions
       /\ txStorage' = done.txStorage
       /\ txLast' = [op |-> "rate", transactionId |-> transactionId,
                     ratedBy |-> ratingBy, rating |-> rating, threw |-> done.threw]
  /\ UNCHANGED <<issued, translationVars, resolverVars, advisorVars, replyVars,
                 concurrencyVars>>

\* await transactionService.clearAllTransactions()
ClearAllTransactions ==
  /\ \E done \in {clearAll(transactions)} :
       /\ transactions' = done.transactions
       /\ txStorage' = done.txStorage
  /\ txLast' = [NoTransactionCall EXCEPT !.op = "clearAll"]
  /\ UNCHANGED <<issued, translationVars, resolverVars, advisorVars, replyVars,
                 concurrencyVars>>

\* any sequence of calls of the transaction service; the clock stands while
\* they are made, no call depending on the time that has passed
NextTransactions ==
  \/ \E buyerId \in {"buyer1"}, sellerId \in {"seller1"}, commodity \in TradedCommodities,
        quantity \in Quantities, agreedPrice \in AgreedPrices :
       RecordTransaction(buyerId, sellerId, commodity, quantity, agreedPrice)
  \/ \E transactionId \in TransactionIds : CompleteTransaction(transactionId)
  \/ \E transactionId \in TransactionIds, reason \in {"Buyer changed mind"} :
       CancelTransaction(transactionId, reason)
  \/ \E transactionId \in TransactionIds, ratingBy \in {"buyer", "seller"},
        rating \in Ratings :
       RateTransaction(transactionId, ratingBy, rating)
  \/ ClearAllTransactions

SpecTransactions == Init /\ [][NextTransactions]_vars

\* --------------------------------------------------------- polite responses
\* getPoliteResponseTemplate (NegotiationService.ts).  A phrase of the
\* templates object is named by its language, its type and its place in the
\* array, together with the price the template literal embeds (none in the
\* accept phrases); suggestion.message is returned as it is.

Phrase(language, type, index, price) ==
  [kind |-> "template", language |-> language, type |-> type, index |-> index,
   price |-> price, message |-> ""]

Message(message) ==
  [kind |-> "message", language |-> "", type |-> "", index |-> 0,
   price |-> Undefined, message |-> message]

\* the own keys of templates, and the keys of each language's object
TemplateLanguages == {"en", "hi"}
TemplateTypes == {"counter", "accept", "reject"}

\* the property names every object inherits from Object.prototype
ObjectPrototypeKeys ==
  {"constructor", "toString", "toLocaleString", "valueOf", "hasOwnProperty",
   "isPrototypeOf", "propertyIsEnumerable", "__proto__", "__defineGetter__",
   "__defineSetter__", "__lookupGetter__", "__lookupSetter__"}

\* templates[language] || templates.en: a language's templates, or the
\* truthy value that templates inherits under that name
LangTemplates(language) ==
  IF language \in TemplateLanguages THEN [templates |-> TRUE, language |-> language]
  ELSE IF language \in ObjectPrototypeKeys THEN [templates |-> FALSE, language |-> ""]
  ELSE [templates |-> TRUE, language |-> "en"]

\* langTemplates[suggestion.type]: the three phrases, or undefined
TypeTemplates(langTemplates, suggestion) ==
  IF langTemplates.templates /\ suggestion.type \in TemplateTypes
  THEN [present |-> TRUE,
        value |-> [index \in 0..2 |->
                     Phrase(langTemplates.language, suggestion.type, index,
                            IF suggestion.type = "accept" THEN Undefined
                            ELSE suggestion.suggestedPrice)]]
  ELSE [present |-> FALSE, value |-> <<>>]

\* getPoliteResponseTemplate(suggestion, language), where random is
\* Math.floor(Math.random() * typeTemplates.length)
getPoliteResponseTemplate(suggestion, language, random) ==
  LET typeTemplates == TypeTemplates(LangTemplates(language), suggestion)
  IN IF ~typeTemplates.present THEN Message(suggestion.message)
     ELSE typeTemplates.value[random]

ReplyLanguages == {"en", "hi", "ta", "te", "constructor", "toString"}
ReplyPrices == {Undefined, Number(21), Number(42)}
ReplyTypes == {"counter", "accept", "reject", "info"}
Messages == {"This offer is above market rate."}

\* getPoliteResponseTemplate(suggestion, language)
GetPoliteResponseTemplate(suggestion, language) ==
  /\ \E random \in 0..2 :
       reply' = [op |-> "reply", suggestion |-> suggestion, language |-> language,
                 result |-> getPoliteResponseTemplate(suggestion, language, random)]
  /\ UNCHANGED <<translationVars, resolverVars, advisorVars, transactionVars,
                 concurrencyVars>>

\* one call, with any suggestion and any language of ReplyLanguages
NextReply ==
  \E type \in ReplyTypes, suggestedPrice \in ReplyPrices, message \in Messages,
     language \in ReplyLanguages :
    /\ reply.op = "none"
    /\ GetPoliteResponseTemplate(
         [type |-> type, suggestedPrice |-> suggestedPrice, message |-> message],
         language)

SpecReply == Init /\ [][NextReply]_vars

\* ------------------------------------------------- two services, one slot
\* A second TranslationService in another execution context (another tab):
\* it has a Map of its own, peerCache, and reads and writes the same slot.
\* Its calls suspended at the await are the elements of peerPending.

\* peer.translateMessage(text, fromLang, toLang) is called
PeerTranslateMessage(text, fromLang, toLang) ==
  /\ calls + Len(pending) + Len(peerPending) < MaxCalls
  /\ \E done \in {translateMessage(peerCache, text, fromLang, toLang, now)} :
       IF done.path = "await"
       THEN /\ Len(peerPending) < MaxPending
            /\ peerPending' = Append(peerPending,
                                     Suspended("peerTranslate", text, fromLang, toLang))
            /\ UNCHANGED <<peerCache, last, calls>>
       ELSE /\ peerCache' = done.cache
            /\ last' = [op |-> "peerTranslate", text |-> text,
                        fromLang |-> fromLang, toLang |-> toLang,
                        path |-> done.path, result |-> done.result,
                        backendCalls |-> 0,
                        repeated |-> Suspended("peerTranslate", text, fromLang,
                                               toLang).repeated]
            /\ calls' = calls + 1
            /\ UNCHANGED peerPending
  /\ UNCHANGED <<cache, storage, useMockTranslation, translateClient, now, pending,
                 advising, resolverVars, advisorVars, replyVars, transactionVars>>

\* the value awaited by the k-th suspended call of the peer arrives
ResumePeerTranslateMessage(k) ==
  /\ k \in 1..Len(peerPending)
  /\ \E outcome \in OutcomesOf(useMockTranslation, translateClient) :
     \E done \in {resumeTranslateMessage(peerCache, storage, useMockTranslation,
                                         translateClient, peerPending[k].text,
                                         peerPending[k].fromLang,
                                         peerPending[k].toLang, outcome, now)} :
       /\ peerCache' = done.cache
       /\ storage' = done.storage
       /\ last' = [op |-> "peerTranslate", text |-> peerPending[k].text,
                   fromLang |-> peerPending[k].fromLang,
                   toLang |-> peerPending[k].toLang,
                   path |-> done.path, result |-> done.result,
                   backendCalls |-> done.backendCalls,
                   repeated |-> peerPending[k].repeated]
  /\ peerPending' = Without(peerPending, k)
  /\ calls' = calls + 1
  /\ UNCHANGED <<cache, useMockTranslation, translateClient, now, pending,
                 advising, resolverVars, advisorVars, replyVars, transactionVars>>

\* the other context is loaded, with no call suspended: its new
\* TranslationService() reads the slot
ConstructPeer ==
  /\ calls < MaxCalls
  /\ pending = <<>>
  /\ peerPending = <<>>
  /\ peerCache' = loadCacheFromStorage(storage)
  /\ last' = [NoCall EXCEPT !.op = "constructPeer"]
  /\ calls' = calls + 1
  /\ UNCHANGED <<cache, storage, useMockTranslation, translateClient, now, pending,
                 peerPending, advising, resolverVars, advisorVars, replyVars,
                 transactionVars>>

\* the texts of the calls made on the two services
SharedTexts == {<<"hello">>, <<"hello", Space, "rs500">>}

\* the calls of the two services in any order
NextShared ==
  \/ \E text \in SharedTexts, fromLang \in {"en"}, toLang \in Langs :
       \/ TranslateMessage(text, fromLang, toLang)
       \/ PeerTranslateMessage(text, fromLang, toLang)
  \/ \E k \in 1..MaxPending :
       \/ ResumeTranslateMessage(k)
       \/ ResumePeerTranslateMessage(k)
  \/ Construct
  \/ ConstructPeer
  \/ Tick

SpecShared == Init /\ [][NextShared]_vars

\* ------------------------------------------------------------------- claims

\* a call has just completed in this step
CallCompletes == calls' = calls + 1
TranslateCompletes == CallCompletes /\ last'.op = "translate"
\* this step is a translateMessage call that returns without reaching the await
ReturnsAtOnce == TranslateCompletes /\ pending' = pending
KeySet(map) == {map[i].key : i \in 1..Len(map)}
\* the list in the slot; a slot never written holds no record
StoredItems == IF storage.present THEN storage.items ELSE <<>>

\* C1: once a call has completed, the in-memory cache holds at most
\* MAX_CACHE_SIZE entries.
C1_CacheBounded == Len(cache) <= MAX_CACHE_SIZE

\* C2: when a new result is inserted into a cache that holds MAX_CACHE_SIZE
\* entries, exactly one existing entry is evicted, and it is one whose
\* last-used timestamp is the oldest of all entries.
C2_EvictsOldest ==
  [][(TranslateCompletes /\ last'.path = "fresh" /\ Len(cache) = MAX_CACHE_SIZE)
       => \E i \in 1..Len(cache) :
            /\ \A k \in 1..Len(cache) : cache[i].lastUsed <= cache[k].lastUsed
            /\ Len(cache') = MAX_CACHE_SIZE
            /\ KeySet(cache') =
                 (KeySet(cache) \ {cache[i].key})
                   \cup {getCacheKey(last'.text, last'.fromLang, last'.toLang)}]_vars

\* C3: translateMessage(t, L, L) returns translatedText = t and confidence 1.0
\* without invoking the backend, whatever the cache holds.
C3_SameLanguageIdentity ==
  (last.op = "translate" /\ last.fromLang = last.toLang)
    => /\ last.result.translatedText = last.text
       /\ last.result.confidence = 100
       /\ last.backendCalls = 0

\* a same-language call made while the same text is cached for another pair
C3_Witness ==
  /\ last.op = "translate" /\ last.fromLang = last.toLang
  /\ \E i \in 1..Len(cache) :
       /\ cache[i].result.originalText = last.text
       /\ cache[i].result.fromLanguage = last.fromLang

\* C4: on a cache hit translateMessage adds one to the entry's usage counter,
\* sets its last-used timestamp to the current time, returns the stored result
\* and does nothing else: no backend call, no entry added or evicted, the slot
\* untouched.
C4_CacheHit ==
  [][(/\ ReturnsAtOnce
      /\ MapHas(cache, <<last'.fromLang, ":", last'.toLang, ":">>
                         \o trim(toLowerCase(last'.text))))
       => LET key == <<last'.fromLang, ":", last'.toLang, ":">>
                       \o trim(toLowerCase(last'.text))
              i == MapIndex(cache, key)
          IN /\ cache' = [cache EXCEPT ![i].usageCount = cache[i].usageCount + 1,
                                       ![i].lastUsed = now]
             /\ last'.result = cache[i].result
             /\ last'.backendCalls = 0
             /\ storage' = storage]_vars

\* a hit, some time after the entry was made, on a text that differs in case
C4_Witness ==
  /\ last.op = "translate" /\ last.path = "hit"
  /\ last.result.originalText # last.text
  /\ \E i \in 1..Len(cache) :
       /\ cache[i].result = last.result
       /\ cache[i].usageCount >= 2
       /\ cache[i].lastUsed > cache[i].result.timestamp

\* this step completes a translateMessage call that was made with the
\* arguments of the call completed just before it was made
RepeatCompletes == TranslateCompletes /\ last'.repeated

SameAnswer ==
  /\ last'.result.translatedText = last.result.translatedText
  /\ last'.result.confidence = last.result.confidence

\* C5 as stated: the second of two identical calls in a row returns the
\* translatedText and confidence of the first, and is served from the cache.
C5_RepeatServedFromCache ==
  [][RepeatCompletes => (SameAnswer /\ last'.path = "hit")]_vars

\* C5 amended: the second of two identical calls in a row returns the
\* translatedText and confidence of the first; it is served from the cache
\* when the languages differ, and is the identity result again when they are
\* the same.
C5_RepeatIdempotent ==
  [][RepeatCompletes
       => /\ SameAnswer
          /\ last'.fromLang # last'.toLang => last'.path = "hit"
          /\ last'.fromLang = last'.toLang => last'.path = "identity"]_vars

\* the second of two identical calls in a row, served from the cache
C5_Witness == last.repeated /\ last.path = "hit"

\* C6: with source and target different, every currency amount of the input
\* occurs verbatim in the returned translatedText.
C6_CurrencyPreserved ==
  (last.op = "translate" /\ last.fromLang # last.toLang)
    => \A i \in 1..Len(last.text) :
         IsCurrencyAmount(last.text[i])
           => \E k \in 1..Len(last.result.translatedText) :
                last.result.translatedText[k] = last.text[i]

\* C8: for a call between different languages that completes without a
\* backend error, confidence is 0.5 when the returned translatedText is the
\* original text, and otherwise 0.9, less 0.1 for an original shorter than 10
\* characters and less 0.05 for one longer than 500.
C8_ConfidenceOfReturnedText ==
  (last.op = "translate" /\ last.fromLang # last.toLang /\ last.path # "failure")
    => last.result.confidence =
         IF last.result.translatedText = last.text THEN 50
         ELSE 90 - (IF length(last.text) < 10 THEN 10 ELSE 0)
                 - (IF length(last.text) > 500 THEN 5 ELSE 0)

\* C9: every result translateMessage returns has a confidence in [0,1], and
\* shouldFlagForReview is true of it exactly when its confidence is below 0.85.
C9_ReviewFlag ==
  last.op = "translate"
    => /\ last.result.confidence \in 0..100
       /\ shouldFlagForReview(last.result) <=> last.result.confidence < 85

\* a cached result at the threshold itself, which is not flagged
C9_Witness ==
  /\ last.op = "translate" /\ last.path = "hit"
  /\ last.result.confidence = 85
  /\ ~shouldFlagForReview(last.result)

\* C10 as stated: once a translateMessage or clearCache call has completed,
\* the records in the slot are the entries of the in-memory cache, usage
\* counters and last-used timestamps included.
C10_StorageMirrorsCache ==
  last.op \in {"translate", "clear"}
    => StoredItems = saveCacheToStorage(cache).items

\* C10 amended: the slot always lists the keys and results of the in-memory
\* cache, in its order; after an insert, an eviction or a clear the records
\* are the in-memory entries in full; a cache hit changes usageCount and
\* lastUsed in memory only, so the slot's record of the entry that was hit
\* keeps the older counter and timestamp until the next insert or clear.
C10_StorageMirrorsWrites ==
  LET written == saveCacheToStorage(cache).items
  IN /\ Len(StoredItems) = Len(written)
     /\ \A i \in 1..Len(written) :
          /\ StoredItems[i].key = written[i].key
          /\ StoredItems[i].result = written[i].result
          /\ StoredItems[i].usageCount <= written[i].usageCount
          /\ parseDate(StoredItems[i].lastUsed) <= parseDate(written[i].lastUsed)
     /\ (last.path = "fresh" \/ last.op \in {"clear", "construct"})
          => StoredItems = written

\* after a hit the slot's record lags behind the entry in memory
C10_Witness ==
  /\ last.op = "translate" /\ last.path = "hit"
  /\ \E i \in 1..Len(cache) :
       /\ StoredItems[i].key = cache[i].key
       /\ StoredItems[i].usageCount < cache[i].usageCount

\* C11: the result of every translateMessage call, a call served from the
\* cache included, has originalText = text, fromLanguage = from and
\* toLanguage = to of that call.
C11_ResultEchoesCall ==
  last.op = "translate"
    => /\ last.result.originalText = last.text
       /\ last.result.fromLanguage = last.fromLang
       /\ last.result.toLanguage = last.toLang

\* C12: searchCommodity applied to the exact canonical (English) name of a
\* record of the catalog returns that record.
C12_ExactNameResolves ==
  search.op = "search"
    => \A i \in CatalogIndices :
         search.query = SAMPLE_PRICES[i].name => search.result = SAMPLE_PRICES[i]

\* "Rice" resolves to the record rice, which is not the first of the catalog
C12_Witness ==
  /\ search.op = "search"
  /\ search.query = <<"R", "i", "c", "e">>
  /\ search.result.id = "rice"

\* C13: searchCommodity applied to an alias or to the Hindi or Tamil name of
\* a record returns that record, and so does searchCommodity applied to that
\* string in upper case.
C13_AliasResolves ==
  search.op = "search"
    => \A i \in CatalogIndices : \A t \in LocalNames(i) :
         search.query \in {t, UpperString(t)} => search.result = SAMPLE_PRICES[i]

\* the alias kanda in upper case resolves to the record onion
C13_Witness ==
  /\ search.op = "search"
  /\ search.query = <<"K", "A", "N", "D", "A">>
  /\ search.result.id = "onion"

\* C14: for a query that is not empty once normalized, with max the greatest
\* similarity of the normalized query to a name, localized name or alias of
\* any record, searchCommodity returns NotFound when max is at most 0.5 and
\* otherwise the first record of the catalog that has a term of similarity
\* max.
C14_FirstBestAboveThreshold ==
  (search.op = "search" /\ normalizeName(search.query) # <<>>)
    => LET normalizedQuery == normalizeName(search.query)
           termsOf(i) == {SAMPLE_PRICES[i].name, SAMPLE_PRICES[i].nameHindi,
                          SAMPLE_PRICES[i].nameTamil}
                           \cup {SAMPLE_PRICES[i].aliases[k] :
                                   k \in 1..Len(SAMPLE_PRICES[i].aliases)}
           scoresOf(i) == {calculateSimilarity(normalizedQuery, t) : t \in termsOf(i)}
           scores == UNION {scoresOf(i) : i \in CatalogIndices}
           max == CHOOSE m \in scores : \A x \in scores : x.n * m.d <= m.n * x.d
           attains(i) == \E x \in scoresOf(i) : x.n * max.d = max.n * x.d
       IN IF max.n * 2 > max.d
          THEN \E i \in CatalogIndices :
                 /\ attains(i)
                 /\ \A j \in 1..(i - 1) : ~attains(j)
                 /\ search.result = SAMPLE_PRICES[i]
          ELSE search.result = NotFound

\* banana, whose greatest similarity is exactly 0.5 (with ganna), is NotFound
C14_Witness ==
  /\ search.op = "search"
  /\ search.query = <<"b", "a", "n", "a", "n", "a">>
  /\ calculateSimilarity(normalizeName(search.query), <<"g", "a", "n", "n", "a">>)
       = Score(2, 4)
  /\ search.result = NotFound

RECURSIVE OnlyFillers(_)
\* a string made of white space and price-related words only
OnlyFillers(s) ==
  \/ s = <<>>
  \/ IsSpace(Head(s)) /\ OnlyFillers(Tail(s))
  \/ \E k \in 1..Len(FillerWords) :
       /\ StartsWith(LowerString(s), FillerWords[k])
       /\ OnlyFillers(SubSeq(s, Len(FillerWords[k]) + 1, Len(s)))

\* C15: searchCommodity returns NotFound for every query that is empty, made
\* of white space only, or made of white space and the words price, rate,
\* bhav, cost and value only.
C15_EmptyQueryNotFound ==
  (search.op = "search" /\ OnlyFillers(search.query))
    => search.result = NotFound

\* a query of two price-related words
C15_Witness ==
  /\ search.op = "search"
  /\ search.query = <<"P", "R", "I", "C", "E", Space, "r", "a", "t", "e", Space>>
  /\ search.result = NotFound

\* C16: for a reference price and an offer above the reference price times
\* 1.15, whatever the previous offers, getNegotiationSuggestion returns type
\* counter with a suggested price strictly below the offer.
C16_HighOfferCounteredBelow ==
  (/\ advice.op = "advise"
   /\ ~Falsy(advice.context.marketPrice)
   /\ advice.context.currentOffer * 100 > advice.context.marketPrice.value * 115)
    => /\ advice.suggestion.type = "counter"
       /\ advice.suggestion.suggestedPrice.present
       /\ advice.suggestion.suggestedPrice.value < advice.context.currentOffer

\* C17: for an offer from 5% below to 5% above the reference price, both
\* limits included, and previous offers that are not empty,
\* getNegotiationSuggestion returns type accept with polite tone and no
\* suggested price.
C17_FairOfferAccepted ==
  (/\ advice.op = "advise"
   /\ ~Falsy(advice.context.marketPrice)
   /\ advice.context.currentOffer * 100 >= advice.context.marketPrice.value * 95
   /\ advice.context.currentOffer * 100 <= advice.context.marketPrice.value * 105
   /\ advice.context.previousOffers # <<>>)
    => /\ advice.suggestion.type = "accept"
       /\ advice.suggestion.tone = "polite"
       /\ ~advice.suggestion.suggestedPrice.present

\* an offer of 21 for a market price of 20, exactly 5% above, after an offer
\* that was countered
C17_Witness ==
  /\ advice.op = "advise"
  /\ advice.context.marketPrice = Number(40)
  /\ advice.context.currentOffer = 42
  /\ advice.context.previousOffers # <<>>
  /\ advice.suggestion.type = "accept"

\* C18 as stated: when the current offer and all the previous offers are
\* more than 15% below the reference price, the suggestion is reject with
\* polite tone for the first offer and counter with firm tone for every
\* later one, both with the suggested price round(referencePrice x 0.95); a
\* suggestion has firm tone in no other situation, that is, only for a later
\* offer of such a sequence.
C18_FirmOnlyInLowSequence ==
  advice.op \in {"advise", "compromise"}
    => LET context == advice.context
           reference == context.marketPrice.value
           low(offer) == (offer - reference) * 100 < (-15) * reference
           allLow == /\ advice.op = "advise"
                     /\ ~Falsy(context.marketPrice)
                     /\ low(context.currentOffer)
                     /\ \A k \in 1..Len(context.previousOffers) :
                          low(context.previousOffers[k])
           price == advice.suggestion.suggestedPrice
       IN /\ allLow
               => /\ advice.suggestion.type =
                       IF context.previousOffers = <<>> THEN "reject" ELSE "counter"
                  /\ advice.suggestion.tone =
                       IF context.previousOffers = <<>> THEN "polite" ELSE "firm"
                  /\ price.present
                  /\ price.value % 2 = 0
                  /\ 100 * price.value - 100 <= 95 * reference
                  /\ 95 * reference < 100 * price.value + 100
          /\ advice.suggestion.tone = "firm"
               => (allLow /\ context.previousOffers # <<>>)

\* C18: an offer more than 15% below the reference price gets reject with
\* polite tone when no offer was made before it and counter with firm tone
\* when any offer was made before it, low or not, both with the suggested
\* price round(referencePrice x 0.95); a suggestion has firm tone exactly
\* when the current offer is that low and the history is not empty.
C18_EscalatingFirmness ==
  advice.op \in {"advise", "compromise"}
    => LET context == advice.context
           reference == context.marketPrice.value
           low(offer) == (offer - reference) * 100 < (-15) * reference
           lowOffer == /\ advice.op = "advise"
                       /\ ~Falsy(context.marketPrice)
                       /\ low(context.currentOffer)
           price == advice.suggestion.suggestedPrice
       IN /\ lowOffer
               => /\ advice.suggestion.type =
                       IF context.previousOffers = <<>> THEN "reject" ELSE "counter"
                  /\ advice.suggestion.tone =
                       IF context.previousOffers = <<>> THEN "polite" ELSE "firm"
                  /\ price.present
                  /\ price.value % 2 = 0
                  /\ 100 * price.value - 100 <= 95 * reference
                  /\ 95 * reference < 100 * price.value + 100
          /\ advice.suggestion.tone = "firm"
               <=> (lowOffer /\ context.previousOffers # <<>>)

\* the third low offer in a row for a market price of 20: counter, firm, 19
C18_Witness ==
  /\ advice.op = "advise"
  /\ advice.context.marketPrice = Number(40)
  /\ advice.context.previousOffers = <<33, 4>>
  /\ advice.context.currentOffer = 33
  /\ advice.suggestion = [type |-> "counter", tone |-> "firm",
                          suggestedPrice |-> Number(38)]

\* C19 as stated: the suggestion is info, with neutral tone and no suggested
\* price, exactly when the context carries no market price and the commodity
\* does not resolve; without a market price and with a commodity that
\* resolves, the suggestion is the one for the mean of the record's priceMin
\* and priceMax.
C19_InfoWithoutMarketPrice ==
  advice.op = "advise"
    => LET context == advice.context
           record == PriceResult(catalog, getPrice(context.commodity))
           absent == ~context.marketPrice.present
       IN /\ advice.suggestion.type = "info" <=> (absent /\ record = NotFound)
          /\ advice.suggestion.type = "info"
               => /\ advice.suggestion.tone = "neutral"
                  /\ ~advice.suggestion.suggestedPrice.present
          /\ (absent /\ record # NotFound)
               => advice.suggestion =
                    getNegotiationSuggestion(
                      [context EXCEPT !.marketPrice =
                         Number(record.priceMin + record.priceMax)], NotFound)

\* C19 amended: the suggestion is info, with neutral tone and no suggested
\* price, exactly when the context's market price is absent or 0 and the
\* commodity does not resolve; with a market price absent or 0 and a
\* commodity that resolves, the suggestion is the one for the mean of the
\* record's priceMin and priceMax.
C19_InfoWithoutReferencePrice ==
  advice.op = "advise"
    => LET context == advice.context
           record == PriceResult(catalog, getPrice(context.commodity))
           absent == ~context.marketPrice.present \/ context.marketPrice.value = 0
       IN /\ advice.suggestion.type = "info" <=> (absent /\ record = NotFound)
          /\ advice.suggestion.type = "info"
               => /\ advice.suggestion.tone = "neutral"
                  /\ ~advice.suggestion.suggestedPrice.present
          /\ (absent /\ record # NotFound)
               => advice.suggestion =
                    getNegotiationSuggestion(
                      [context EXCEPT !.marketPrice =
                         Number(record.priceMin + record.priceMax)], NotFound)

\* a market price of 0 and a commodity that resolves: the offer of 20 is
\* judged against Tomato's mean price of 20 and accepted
C19_Witness ==
  /\ advice.op = "advise"
  /\ advice.context.marketPrice = Number(0)
  /\ advice.context.commodity = <<"t", "o", "m", "a", "t", "o">>
  /\ advice.context.currentOffer = 40
  /\ advice.context.previousOffers # <<>>
  /\ advice.suggestion.type = "accept"

\* C20: every suggestion of getNegotiationSuggestion and suggestCompromise
\* has a suggested price exactly when its type is counter or reject, and a
\* suggested price that is present is strictly positive.
C20_WellFormedSuggestion ==
  advice.op \in {"advise", "compromise"}
    => /\ advice.suggestion.suggestedPrice.present
            <=> advice.suggestion.type \in {"counter", "reject"}
       /\ advice.suggestion.suggestedPrice.present
            => advice.suggestion.suggestedPrice.value > 0

\* C21: isNegotiationStalled is false of fewer than 3 offers; of 3 or more
\* offers it is true exactly when each of the last 3 offers is within 2% of
\* the mean of the last 3, whatever the offers before them.  Within 2% is
\* the test of the source, a distance from the mean below 2% of the mean.
C21_StalledOnLastThree ==
  stalled.op = "stalled"
    => LET offers == stalled.previousOffers
           n == Len(offers)
           total == offers[n - 2] + offers[n - 1] + offers[n]
       IN IF n < 3 THEN ~stalled.result
          ELSE stalled.result
                 <=> \A k \in (n - 2)..n :
                       \* |offer - total/3| < 0.02 x |total/3|
                       150 * Abs(3 * offers[k] - total) < 3 * Abs(total)

\* C22: rateTransaction throws, and leaves the store and its slot as they
\* were, when the rating is outside [1,5], the transaction does not exist or
\* it is not completed; otherwise it records the rating of the party that
\* rates and keeps every other field, the other party's rating included
C22_RatingValidated ==
  [][(txLast'.op = "rate" /\ now' = now) =>
       LET id == txLast'.transactionId
           rating == txLast'.rating
           invalid == \/ rating < 1
                      \/ rating > 5
                      \/ ~HasTransaction(transactions, id)
                      \/ getTransaction(transactions, id).status # "completed"
       IN IF invalid
          THEN /\ txLast'.threw # "none"
               /\ transactions' = transactions
               /\ txStorage' = txStorage
          ELSE /\ txLast'.threw = "none"
               /\ Len(transactions') = Len(transactions)
               /\ \A i \in 1..Len(transactions) :
                    LET before == transactions[i]
                        after == transactions'[i]
                    IN IF before.id # id THEN after = before
                       ELSE /\ after.ratings.present
                            /\ IF txLast'.ratedBy = "buyer"
                               THEN /\ after.ratings.buyerRating = Number(rating)
                                    /\ after.ratings.sellerRating
                                         = before.ratings.sellerRating
                               ELSE /\ after.ratings.sellerRating = Number(rating)
                                    /\ after.ratings.buyerRating
                                         = before.ratings.buyerRating
                            /\ [after EXCEPT !.ratings = before.ratings] = before
  ]_vars

\* a completed transaction that the seller rated after the buyer had
C22_Witness ==
  /\ txLast.op = "rate"
  /\ txLast.threw = "none"
  /\ txLast.ratedBy = "seller"
  /\ HasTransaction(transactions, txLast.transactionId)
  /\ LET transaction == getTransaction(transactions, txLast.transactionId)
     IN /\ transaction.status = "completed"
        /\ transaction.ratings.sellerRating = Number(txLast.rating)
        /\ transaction.ratings.buyerRating.present
        /\ transaction.ratings.buyerRating # transaction.ratings.sellerRating

\* C29: in every call of recordTransaction, completeTransaction,
\* cancelTransaction or rateTransaction a recorded transaction keeps its status
\* or goes from pending to completed or from pending to cancelled (completed
\* and cancelled are terminal), and it keeps buyerId, sellerId, commodity,
\* quantity, agreedPrice and totalAmount = quantity x agreedPrice
C29_Lifecycle ==
  [][txLast'.op \in {"record", "complete", "cancel", "rate"} =>
     \A i \in 1..Len(transactions) :
       /\ HasTransaction(transactions', transactions[i].id)
       /\ LET before == transactions[i]
              after == getTransaction(transactions', before.id)
          IN /\ \/ after.status = before.status
                \/ before.status = "pending" /\ after.status = "completed"
                \/ before.status = "pending" /\ after.status = "cancelled"
             /\ after.buyerId = before.buyerId
             /\ after.sellerId = before.sellerId
             /\ after.commodity = before.commodity
             /\ after.quantity = before.quantity
             /\ after.agreedPrice = before.agreedPrice
             /\ after.totalAmount = before.totalAmount
             /\ after.totalAmount = after.quantity * after.agreedPrice
  ]_vars

\* C25: for type counter, accept or reject the phrase returned is one of the
\* three of that type in the language asked for, or in English for every
\* language other than en and hi; for type info it is suggestion.message;
\* every counter and reject phrase embeds suggestion.suggestedPrice
C25_PhraseOfTypeAndLanguage ==
  reply.op = "reply" =>
    IF reply.suggestion.type = "info"
    THEN reply.result = Message(reply.suggestion.message)
    ELSE /\ reply.result.kind = "template"
         /\ reply.result.type = reply.suggestion.type
         /\ reply.result.index \in 0..2
         /\ reply.result.language
              = IF reply.language \in {"en", "hi"} THEN reply.language ELSE "en"
         /\ reply.suggestion.type \in {"counter", "reject"}
              => reply.result.price = reply.suggestion.suggestedPrice

\* n/d rupees round to price (in half rupees): price is a whole number of
\* rupees r with r - 1/2 <= n/d < r + 1/2
RoundsTo(price, n, d) ==
  /\ price.present
  /\ price.value % 2 = 0
  /\ (price.value - 1) * d <= 2 * n
  /\ 2 * n < (price.value + 1) * d

\* C24: with a reference price, the suggestion follows the band of the
\* difference: above +15% counter at round(reference x 1.05), polite; below
\* -15% reject (first offer) or counter (later offers) at round(reference x
\* 0.95); within 5% either way accept (after previous offers) or counter at
\* round(offer x 0.98) (first offer); everything else, exactly +15% and -15%
\* included, counter at round(reference), polite
C24_FiveWayPartition ==
  (advice.op = "advise" /\ ~Falsy(advice.context.marketPrice))
    => LET offer == advice.context.currentOffer
           reference == advice.context.marketPrice.value
           first == advice.context.previousOffers = <<>>
           suggestion == advice.suggestion
           above(percent) == (offer - reference) * 100 > percent * reference
           below(percent) == (offer - reference) * 100 < (-percent) * reference
       IN IF above(15)
          THEN /\ suggestion.type = "counter"
               /\ suggestion.tone = "polite"
               /\ RoundsTo(suggestion.suggestedPrice, reference * 105, 200)
          ELSE IF below(15)
          THEN /\ suggestion.type = IF first THEN "reject" ELSE "counter"
               /\ RoundsTo(suggestion.suggestedPrice, reference * 95, 200)
          ELSE IF ~above(5) /\ ~below(5)
          THEN IF first
               THEN /\ suggestion.type = "counter"
                    /\ RoundsTo(suggestion.suggestedPrice, offer * 98, 200)
               ELSE /\ suggestion.type = "accept"
                    /\ ~suggestion.suggestedPrice.present
          ELSE /\ suggestion.type = "counter"
               /\ suggestion.tone = "polite"
               /\ RoundsTo(suggestion.suggestedPrice, reference, 2)

\* an offer of 23 for a market price of 20, exactly 15% above, countered at 20
C24_Witness ==
  /\ advice.op = "advise"
  /\ advice.context.marketPrice = Number(40)
  /\ advice.context.currentOffer = 46
  /\ advice.suggestion.type = "counter"
  /\ advice.suggestion.suggestedPrice = Number(40)

\* C26: a suggestion of type counter or reject names a price that differs
\* from the current offer; the counter to a fair first offer is strictly
\* below the offer
C26_SuggestionMovesThePrice ==
  (/\ advice.op = "advise"
   /\ advice.suggestion.type \in {"counter", "reject"})
    => /\ advice.suggestion.suggestedPrice.present
       /\ advice.suggestion.suggestedPrice.value # advice.context.currentOffer
       /\ (/\ ~Falsy(advice.context.marketPrice)
           /\ advice.context.previousOffers = <<>>
           /\ advice.context.currentOffer * 100 >= advice.context.marketPrice.value * 95
           /\ advice.context.currentOffer * 100 <= advice.context.marketPrice.value * 105)
            => advice.suggestion.suggestedPrice.value < advice.context.currentOffer

\* the key of the call completed in this step
CompletedKey == getCacheKey(last'.text, last'.fromLang, last'.toLang)

\* C27: a call adds a cache entry only when it is a miss between different
\* languages whose pipeline completes without error; a same-language call and
\* a call that ends in the failure result leave the cache and the slot
\* unchanged, so the retry of a call that ended in the failure result invokes
\* the backend again
C27_AddsOnlyOnMiss ==
  [][TranslateCompletes =>
       /\ ~(KeySet(cache') \subseteq KeySet(cache))
            => /\ last'.path = "fresh"
               /\ last'.fromLang # last'.toLang
               /\ ~MapHas(cache, CompletedKey)
       /\ (last'.fromLang = last'.toLang \/ last'.path = "failure")
            => (cache' = cache /\ storage' = storage)
       /\ (RepeatCompletes /\ last.path = "failure") => last'.backendCalls > 0
  ]_vars

\* a same-language call completed on a cache that holds an entry a miss
\* between different languages added, for the same text
C27_Witness ==
  /\ last.op = "translate"
  /\ last.path = "identity"
  /\ \E i \in 1..Len(cache) :
       /\ cache[i].result.originalText = last.text
       /\ cache[i].result.fromLanguage # cache[i].result.toLanguage
  /\ storage = saveCacheToStorage(cache)

\* C23: after an insert by either of two services that share the slot, the
\* slot holds the cache of the service that inserted, and nothing else: what
\* the other service persisted and this one never loaded is gone from it
C23_LastWriterWins ==
  /\ (last.op = "translate" /\ last.path = "fresh")
       => storage = saveCacheToStorage(cache)
  /\ (last.op = "peerTranslate" /\ last.path = "fresh")
       => storage = saveCacheToStorage(peerCache)

\* an insert by the first service after which an entry that the second
\* service holds, and persisted, is no longer in the slot
C23_Witness ==
  /\ last.op = "translate"
  /\ last.path = "fresh"
  /\ \E i \in 1..Len(peerCache) :
       /\ peerCache[i].key \notin KeySet(cache)
       /\ \A k \in 1..Len(StoredItems) : StoredItems[k].key # peerCache[i].key

\* C28: however the calls of one service overlap at the await, the cache
\* holds at most MAX_CACHE_SIZE entries after every call that completes, and
\* a call removes an entry only when it inserts a key that the cache does not
\* hold into a cache that is full: inserting a key again, which an
\* overlapping call for the same text and languages has cached, removes
\* nothing
C28_EvictsOnlyForNewKey ==
  [][TranslateCompletes =>
       /\ Len(cache') <= MAX_CACHE_SIZE
       /\ ~(KeySet(cache) \subseteq KeySet(cache'))
            => /\ last'.path = "fresh"
               /\ ~MapHas(cache, CompletedKey)
               /\ Len(cache) >= MAX_CACHE_SIZE
  ]_vars

\* C30: a record is returned only on the strength of a name it has: every
\* record of SAMPLE_PRICES has a Tamil name, and a query that shares no
\* character with the name, the Hindi name, the Tamil name or an alias of a
\* record never returns that record
C30_OnlyOwnNames ==
  (search.op = "search" /\ search.result # NotFound)
    => LET commodity == search.result
           names == {commodity.name, commodity.nameHindi, commodity.nameTamil}
                      \cup {commodity.aliases[k] : k \in 1..Len(commodity.aliases)}
       IN /\ \A i \in CatalogIndices : SAMPLE_PRICES[i].nameTamil # <<>>
          /\ \E name \in names :
               /\ name # <<>>
               /\ CharSet(LowerString(search.query))
                    \cap CharSet(LowerString(name)) # {}

\* a misspelt name returns the record whose name it overlaps, and no term
\* of that record equals or contains the query
C30_Witness ==
  /\ search.op = "search"
  /\ search.result # NotFound
  /\ \A k \in 1..Len(searchTerms(search.result)) :
       LET score == calculateSimilarity(normalizeName(search.query),
                                        LowerString(searchTerms(search.result)[k]))
       IN Greater(Score(4, 5), score)

====
